---- MODULE Spec2Model ----
(***************************************************************************)
(* Model of the AI excerpt generator: the sentence Normalizer of the two   *)
(* providers, the ProviderFactory (cooldown table and instance pool) and   *)
(* FileProcessor.processFile (primary call, single fallback hop).          *)
(***************************************************************************)
EXTENDS Integers, Sequences, FiniteSets, TLC

(***************************************************************************)
(* Bounds of the model.                                                    *)
(***************************************************************************)
MaxTextLen == 6
MaxLimit == 5
MaxOver == 1

(***************************************************************************)
(* Characters.  One representative per class the Normalizer distinguishes: *)
(* the three sentence marks, whitespace, a capital and a lower-case letter.*)
(***************************************************************************)
Chars == {".", "!", "?", " ", "A", "b"}

IsPunct(c) == c \in {".", "!", "?"}

IsSpace(c) == c = " "

\* [A-Z]: the capital of Chars and the capitals of the example text.
IsUpper(c) == c \in {"A", "H", "T"}

Min(a, b) == IF a <= b THEN a ELSE b

Max(a, b) == IF a >= b THEN a ELSE b

\* String.prototype.substring(start, end): 0-based, end exclusive, clamped.
Substring(s, start, end) ==
    LET a == Max(0, Min(start, Len(s)))
        b == Max(0, Min(end, Len(s)))
    IN  SubSeq(s, Min(a, b) + 1, Max(a, b))

RECURSIVE TrimStart(_)
TrimStart(s) ==
    IF s # << >> /\ IsSpace(Head(s)) THEN TrimStart(Tail(s)) ELSE s

RECURSIVE TrimEnd(_)
TrimEnd(s) ==
    IF s # << >> /\ IsSpace(s[Len(s)]) THEN TrimEnd(SubSeq(s, 1, Len(s) - 1))
    ELSE s

\* String.prototype.trim()
Trim(s) == TrimEnd(TrimStart(s))

\* Variant of lastIndexOf that searches the whole text.
LastIndexOfAnywhere(s, c, fromIndex) ==
    LET hits == {i \in 0..(Len(s) - 1) : s[i + 1] = c}
    IN  IF hits = {} THEN -1 ELSE CHOOSE i \in hits : \A j \in hits : j <= i

\* String.prototype.lastIndexOf(c, fromIndex): 0-based index or -1.
LastIndexOf(s, c, fromIndex) ==
    LET hits == {i \in 0..Min(fromIndex, Len(s) - 1) : s[i + 1] = c}
    IN  IF hits = {} THEN -1 ELSE CHOOSE i \in hits : \A j \in hits : j <= i

\* End (0-based, exclusive) of the match of /[.!?]\s*/ that starts at the
\* 0-based index i: the mark and the whole whitespace run after it.
RunEnd(s, i) ==
    CHOOSE e \in (i + 1)..Len(s) :
        /\ \A k \in (i + 2)..e : IsSpace(s[k])
        /\ e = Len(s) \/ ~IsSpace(s[e + 1])

\* Variant of the matches without the lookahead: every mark with its
\* whitespace run.
RECURSIVE MatchAllMarksFrom(_, _)
MatchAllMarksFrom(s, i) ==
    IF i >= Len(s) THEN << >>
    ELSE IF IsPunct(s[i + 1])
         THEN <<[index |-> i, length |-> RunEnd(s, i) - i]>>
                  \o MatchAllMarksFrom(s, RunEnd(s, i))
         ELSE MatchAllMarksFrom(s, i + 1)

\* [...text.matchAll(/[.!?]\s*(?=[A-Z]|$)/g)] as the ascending sequence of
\* records [index, length].  \s* is greedy and a shorter run is followed by
\* whitespace, so a mark matches exactly when its whole whitespace run is
\* followed by a capital or by the end of the text.
RECURSIVE MatchAllFrom(_, _)
MatchAllFrom(s, i) ==
    IF i >= Len(s) THEN << >>
    ELSE IF IsPunct(s[i + 1])
            /\ (RunEnd(s, i) = Len(s) \/ IsUpper(s[RunEnd(s, i) + 1]))
         THEN <<[index |-> i, length |-> RunEnd(s, i) - i]>>
                  \o MatchAllFrom(s, RunEnd(s, i))
         ELSE MatchAllFrom(s, i + 1)

SentenceEndMatches(s) == MatchAllFrom(s, 0)

\* Variant of the loop that stops at the first boundary within the limit.
LastBoundaryFirst(matches, k, maxLength, lastMatchIndex) ==
    IF k > Len(matches) THEN lastMatchIndex
    ELSE LET position == matches[k].index + matches[k].length
         IN  IF position <= maxLength THEN position ELSE lastMatchIndex

\* The for-loop over the matches, with its break.
RECURSIVE LastBoundary(_, _, _, _)
LastBoundary(matches, k, maxLength, lastMatchIndex) ==
    IF k > Len(matches) THEN lastMatchIndex
    ELSE LET position == matches[k].index + matches[k].length
         IN  IF position <= maxLength
             THEN LastBoundary(matches, k + 1, maxLength, position)
             ELSE lastMatchIndex

\* Variant of the Normalizer that cuts at the limit and then adds the period.
EnsureCompleteSentenceNoRoom(text, maxLength) ==
    IF Len(text) <= maxLength THEN text
    ELSE Trim(Substring(text, 0, maxLength)) \o <<".">>

\* Variant of the Normalizer that cuts and adds the period whatever the
\* length of the text.
EnsureCompleteSentenceAlwaysPeriod(text, maxLength) ==
    Trim(Substring(text, 0, maxLength - 1)) \o <<".">>

OpenAIEnsureCompleteSentence(text, maxLength) ==
    IF Len(text) <= maxLength THEN text
    ELSE
    LET lastMatchIndex == LastBoundary(SentenceEndMatches(text), 1, maxLength, -1)
        lastPeriodIndex == LastIndexOf(text, ".", maxLength - 1)
        lastQuestionIndex == LastIndexOf(text, "?", maxLength - 1)
        lastExclamationIndex == LastIndexOf(text, "!", maxLength - 1)
        endIndex == Max(IF lastPeriodIndex > 0 THEN lastPeriodIndex ELSE 0,
                        Max(IF lastQuestionIndex > 0 THEN lastQuestionIndex ELSE 0,
                            IF lastExclamationIndex > 0 THEN lastExclamationIndex ELSE 0))
        lastSpaceIndex == LastIndexOf(text, " ", maxLength - 1)
    IN  IF lastMatchIndex > 0 THEN Trim(Substring(text, 0, lastMatchIndex))
        ELSE IF endIndex > 0 THEN Trim(Substring(text, 0, endIndex + 1))
        ELSE IF Len(text) > maxLength /\ 4 * lastSpaceIndex > 3 * maxLength
             THEN Trim(Substring(text, 0, lastSpaceIndex)) \o <<".">>
        ELSE Trim(Substring(text, 0, maxLength - 1)) \o <<".">>

ClaudeEnsureCompleteSentence(text, maxLength) ==
    IF Len(text) <= maxLength THEN text
    ELSE
    LET lastMatchIndex == LastBoundary(SentenceEndMatches(text), 1, maxLength, -1)
        lastPeriodIndex == LastIndexOf(text, ".", maxLength - 1)
        lastQuestionIndex == LastIndexOf(text, "?", maxLength - 1)
        lastExclamationIndex == LastIndexOf(text, "!", maxLength - 1)
        endIndex == Max(IF lastPeriodIndex > 0 THEN lastPeriodIndex ELSE 0,
                        Max(IF lastQuestionIndex > 0 THEN lastQuestionIndex ELSE 0,
                            IF lastExclamationIndex > 0 THEN lastExclamationIndex ELSE 0))
        lastSpaceIndex == LastIndexOf(text, " ", maxLength - 1)
    IN  IF lastMatchIndex > 0 THEN Trim(Substring(text, 0, lastMatchIndex))
        ELSE IF endIndex > 0 THEN Trim(Substring(text, 0, endIndex + 1))
        ELSE IF Len(text) > maxLength /\ 4 * lastSpaceIndex > 3 * maxLength
             THEN Trim(Substring(text, 0, lastSpaceIndex)) \o <<".">>
        ELSE Trim(Substring(text, 0, maxLength - 1)) \o <<".">>

(***************************************************************************)
(* Program constants.                                                      *)
(***************************************************************************)
CLAUDE == "claude"

OPENAI == "openai"

LLMProvider == {CLAUDE, OPENAI}

cooldownDuration == 60000

maxActiveProviders == 2

(***************************************************************************)
(* Further bounds: requests started in one behaviour, requests in flight   *)
(* at the same time, and cooldown periods the clock runs through.          *)
(***************************************************************************)
MaxRequests == 3
MaxInFlight == 2
MaxPeriods == 1

\* Provider objects constructed when the factory is driven on its own: as
\* many as the pool may hold.
MaxInstances == maxActiveProviders

Req == 1..MaxInFlight

\* Readings of Date.now() (ms since the start of the behaviour): the ends of
\* the cooldown periods and the millisecond before each.
Clock == {k * cooldownDuration : k \in 0..MaxPeriods}
            \cup {k * cooldownDuration - 1 : k \in 1..MaxPeriods}

\* Error classes of a failed generateExcerpt call.
ErrorClasses == {"auth", "rate_limit", "overloaded", "malformed", "server", "unknown"}

NoProvider == [type |-> "null", serial |-> 0]

NoError == [from |-> "none", class |-> "none"]

NoText == [by |-> NoProvider]

NoResult == [provider |-> NoProvider, fallbackType |-> "null", needsConfiguration |-> FALSE]

\* The values of AIExcerptSettings the factory reads: the provider chosen and
\* whether each API key is a non-empty string.
Settings == [provider : LLMProvider, claudeApiKey : BOOLEAN, openaiApiKey : BOOLEAN]

DefaultSettings == [provider |-> CLAUDE, claudeApiKey |-> TRUE, openaiApiKey |-> TRUE]

VARIABLES
    now,                \* Date.now()
    settings,           \* AIExcerptSettings: provider and whether each key is set
    providerCooldowns,  \* ProviderFactory.providerCooldowns; 0 = no entry
    activeProviders,    \* ProviderFactory.activeProviders, in insertion order
    nextSerial,         \* identity of the next provider object constructed
    req,                \* the processFile calls in flight
    started,            \* number of processFile calls so far
    lastFailureAt,      \* history: time of the last reportProviderFailure, -1 = none
    rescueUntil,        \* history: per primary identity, end of the cooldown window
                        \* of the calls that succeeded through the fallback, 0 = none
    nText,              \* Normalizer: raw text
    nMaxLength,         \* Normalizer: limit
    nResult,            \* Normalizer: text returned by each provider's copy
    nPc,                \* Normalizer: "idle", "ready", "done" or "again"
    nAgain,             \* Normalizer: text returned when given its own result
    nReturned,          \* text returned by generateExcerpt of the provider class
                        \* that ProviderFactory imports for each provider type
    call,               \* history: the last call of a ProviderFactory method made
                        \* by a caller other than processFile
    gen,                \* the generateExcerpt calls on one ClaudeProvider instance
    retryCount,         \* ClaudeProvider.retryCount of that instance
    sinceLast,          \* Date.now() - lastRequestTime of that instance, in ms,
                        \* read up to minRequestInterval
    lastGap,            \* history: ms between the start of the latest outbound
                        \* call of the instance and the one before it
    issued,             \* number of generateExcerpt calls made on the instance
    batch,              \* one call of processDirectory or processAllFiles
    esc                 \* one call of FileUtils.escapeExcerpt

vars == <<now, settings, providerCooldowns, activeProviders, nextSerial, req,
          started, lastFailureAt, rescueUntil, nText, nMaxLength, nResult, nPc, nAgain,
          nReturned, call, gen, retryCount, sinceLast, lastGap, issued, batch, esc>>

factoryVars == <<now, settings, providerCooldowns, activeProviders, nextSerial,
                 req, started, lastFailureAt, rescueUntil>>

normVars == <<nText, nMaxLength, nResult, nPc, nAgain, nReturned>>

apiVars == <<call>>

genVars == <<gen, retryCount, sinceLast, lastGap, issued>>

batchVars == <<batch>>

escVars == <<esc>>

(***************************************************************************)
(* ProviderFactory.  The static methods are operators over the factory's   *)
(* state; a method that changes the pool returns the new pool.             *)
(***************************************************************************)
\* Variant of the health check that still counts the instant of expiry.
IsProviderInCooldownInclusive(cooldowns, provider, t) ==
    LET cooldownUntil == cooldowns[provider]
    IN  cooldownUntil # 0 /\ t <= cooldownUntil

IsProviderInCooldown(cooldowns, provider, t) ==
    LET cooldownUntil == cooldowns[provider]
    IN  cooldownUntil # 0 /\ t < cooldownUntil

SetProviderCooldown(cooldowns, provider, t) ==
    [cooldowns EXCEPT ![provider] = t + cooldownDuration]

ReportProviderFailure(cooldowns, provider, t) ==
    SetProviderCooldown(cooldowns, provider, t)

\* `${provider}-${Date.now()}`
ProviderId(type, t) == <<type, t>>

\* Map.prototype.set: a known key keeps its place and gets the new value.
MapSet(pool, id, provider) ==
    IF \E i \in 1..Len(pool) : pool[i].id = id
    THEN [i \in 1..Len(pool) |->
             IF pool[i].id = id THEN [id |-> id, provider |-> provider] ELSE pool[i]]
    ELSE Append(pool, [id |-> id, provider |-> provider])

GetExistingProvider(pool, providerType) ==
    LET hits == {i \in 1..Len(pool) : pool[i].provider.type = providerType}
    IN  IF hits = {} THEN NoProvider
        ELSE pool[CHOOSE i \in hits : \A j \in hits : i <= j].provider

\* Variant of the key test that takes every key as present.
HasKeyAlways(s, type) == TRUE

HasKey(s, type) == IF type = CLAUDE THEN s.claudeApiKey ELSE s.openaiApiKey

\* Variant of the fallback lookup that does not read the cooldown table.
CreateFallbackProviderEager(pool, cooldowns, t, serial, s, primaryProvider) ==
    LET fallbackType ==
            IF primaryProvider = CLAUDE THEN OPENAI
            ELSE IF primaryProvider = OPENAI THEN CLAUDE
            ELSE "null"
        fresh == [type |-> fallbackType, serial |-> serial]
    IN  IF fallbackType = "null"
        THEN [provider |-> NoProvider, fallbackType |-> "null",
              needsConfiguration |-> FALSE, pool |-> pool]
        ELSE IF FALSE
        THEN [provider |-> NoProvider, fallbackType |-> fallbackType,
              needsConfiguration |-> FALSE, pool |-> pool]
        ELSE IF HasKey(s, fallbackType)
        THEN [provider |-> fresh, fallbackType |-> fallbackType,
              needsConfiguration |-> FALSE,
              pool |-> MapSet(pool, ProviderId(fallbackType, t), fresh)]
        ELSE [provider |-> NoProvider, fallbackType |-> fallbackType,
              needsConfiguration |-> TRUE, pool |-> pool]

\* Variant of the fallback lookup that routes Claude to itself.
CreateFallbackProviderSelf(pool, cooldowns, t, serial, s, primaryProvider) ==
    LET fallbackType ==
            IF primaryProvider = CLAUDE THEN CLAUDE
            ELSE IF primaryProvider = OPENAI THEN CLAUDE
            ELSE "null"
        fresh == [type |-> fallbackType, serial |-> serial]
    IN  IF fallbackType = "null"
        THEN [provider |-> NoProvider, fallbackType |-> "null",
              needsConfiguration |-> FALSE, pool |-> pool]
        ELSE IF IsProviderInCooldown(cooldowns, fallbackType, t)
        THEN [provider |-> NoProvider, fallbackType |-> fallbackType,
              needsConfiguration |-> FALSE, pool |-> pool]
        ELSE IF HasKey(s, fallbackType)
        THEN [provider |-> fresh, fallbackType |-> fallbackType,
              needsConfiguration |-> FALSE,
              pool |-> MapSet(pool, ProviderId(fallbackType, t), fresh)]
        ELSE [provider |-> NoProvider, fallbackType |-> fallbackType,
              needsConfiguration |-> TRUE, pool |-> pool]

\* Returns the result object and the pool after the call.
CreateFallbackProvider(pool, cooldowns, t, serial, s, primaryProvider) ==
    LET fallbackType ==
            IF primaryProvider = CLAUDE THEN OPENAI
            ELSE IF primaryProvider = OPENAI THEN CLAUDE
            ELSE "null"
        fresh == [type |-> fallbackType, serial |-> serial]
    IN  IF fallbackType = "null"
        THEN [provider |-> NoProvider, fallbackType |-> "null",
              needsConfiguration |-> FALSE, pool |-> pool]
        ELSE IF IsProviderInCooldown(cooldowns, fallbackType, t)
        THEN [provider |-> NoProvider, fallbackType |-> fallbackType,
              needsConfiguration |-> FALSE, pool |-> pool]
        ELSE IF HasKey(s, fallbackType)
        THEN [provider |-> fresh, fallbackType |-> fallbackType,
              needsConfiguration |-> FALSE,
              pool |-> MapSet(pool, ProviderId(fallbackType, t), fresh)]
        ELSE [provider |-> NoProvider, fallbackType |-> fallbackType,
              needsConfiguration |-> TRUE, pool |-> pool]

\* Variant of createProvider that pools the instance before the key test.
CreateProviderPoolFirst(pool, cooldowns, t, serial, s) ==
    LET inCooldown == IsProviderInCooldown(cooldowns, s.provider, t)
        fallbackResult ==
            CreateFallbackProvider(pool, cooldowns, t, serial, s, s.provider)
        existingProvider == GetExistingProvider(pool, s.provider)
        fresh == [type |-> s.provider, serial |-> serial]
    IN  IF inCooldown /\ fallbackResult.provider # NoProvider
        THEN [provider |-> fallbackResult.provider, pool |-> fallbackResult.pool]
        ELSE IF Len(pool) >= maxActiveProviders /\ existingProvider # NoProvider
        THEN [provider |-> existingProvider, pool |-> pool]
        ELSE IF ~HasKey(s, s.provider)
        THEN [provider |-> NoProvider,
              pool |-> MapSet(pool, ProviderId(s.provider, t), fresh)]
        ELSE [provider |-> fresh,
              pool |-> MapSet(pool, ProviderId(s.provider, t), fresh)]

\* Returns the provider (NoProvider for null) and the pool after the call.
CreateProvider(pool, cooldowns, t, serial, s) ==
    LET inCooldown == IsProviderInCooldown(cooldowns, s.provider, t)
        fallbackResult ==
            CreateFallbackProvider(pool, cooldowns, t, serial, s, s.provider)
        existingProvider == GetExistingProvider(pool, s.provider)
        fresh == [type |-> s.provider, serial |-> serial]
    IN  IF inCooldown /\ fallbackResult.provider # NoProvider
        THEN [provider |-> fallbackResult.provider, pool |-> fallbackResult.pool]
        ELSE IF Len(pool) >= maxActiveProviders /\ existingProvider # NoProvider
        THEN [provider |-> existingProvider, pool |-> pool]
        ELSE IF ~HasKey(s, s.provider)
        THEN [provider |-> NoProvider, pool |-> pool]
        ELSE [provider |-> fresh,
              pool |-> MapSet(pool, ProviderId(s.provider, t), fresh)]

\* Deletes the first entry whose value is the given object.
ReleaseProvider(pool, provider) ==
    LET hits == {i \in 1..Len(pool) : pool[i].provider = provider}
    IN  IF hits = {} THEN pool
        ELSE LET k == CHOOSE i \in hits : \A j \in hits : i <= j
             IN  SubSeq(pool, 1, k - 1) \o SubSeq(pool, k + 1, Len(pool))

PoolProviders(pool) == {pool[i].provider : i \in 1..Len(pool)}

(***************************************************************************)
(* FileProcessor.processFile.  One action per stretch of code between two  *)
(* awaits; the host's read and write and the provider's generateExcerpt    *)
(* resolve or reject nondeterministically.                                 *)
(***************************************************************************)
ConfigError == [from |-> "config", class |-> "none"]

\* What is kept of an error once processFile has returned: where it was
\* thrown.  Its class is observed while the call is in flight.
Origin(error) == [from |-> error.from, class |-> "none"]

IdleReq ==
    [pc |-> "idle", provider |-> NoProvider, fallbackResult |-> NoResult,
     excerptText |-> NoText, written |-> NoText, outcome |-> "none",
     surfaced |-> NoError, primaryFailure |-> NoError, failedAt |-> -1,
     log |-> << >>, window |-> {}, showNotices |-> TRUE, notices |-> << >>]

\* new Notice(...) under `if (showNotices)`: the kind of text shown and the
\* provider names it spells out.
Notify(showNotices, notices, kind, names) ==
    IF showNotices THEN Append(notices, [kind |-> kind, names |-> names])
    ELSE notices

\* Lines 755-773: the extension check, createProvider, and the start of the
\* read, in a call processFile(file, showNotices).
ProcessFileStart(r, showNotices) ==
    /\ req[r].pc \in {"idle", "done"}
    /\ \A q \in 1..(r - 1) : req[q].pc \notin {"idle", "done"}
    /\ started < MaxRequests
    /\ started' = started + 1
    /\ \E isMarkdown \in BOOLEAN :
        LET blank == [IdleReq EXCEPT
                        !.window = {p \in LLMProvider : now < rescueUntil[p]},
                        !.showNotices = showNotices]
            created == CreateProvider(activeProviders, providerCooldowns, now,
                                      nextSerial, settings)
            log1 == <<<<"createProvider", created.provider>>>>
        IN  IF ~isMarkdown
            THEN /\ req' = [req EXCEPT ![r] =
                        [blank EXCEPT !.pc = "done", !.outcome = "Skipped",
                                      !.notices = Notify(showNotices, << >>,
                                                         "notMarkdown", {})]]
                 /\ UNCHANGED <<activeProviders, nextSerial>>
            ELSE /\ activeProviders' = created.pool
                 /\ nextSerial' = IF created.provider.serial = nextSerial
                                  THEN nextSerial + 1 ELSE nextSerial
                 /\ req' = [req EXCEPT ![r] =
                        IF created.provider = NoProvider
                        THEN [blank EXCEPT !.pc = "done", !.outcome = "Failed",
                                           !.surfaced = ConfigError, !.log = log1,
                                           !.notices = Notify(showNotices, << >>,
                                                              "notConfigured", {})]
                        ELSE [blank EXCEPT !.pc = "read",
                                           !.provider = created.provider,
                                           !.log = log1]]
    /\ UNCHANGED <<now, settings, providerCooldowns, lastFailureAt, rescueUntil>>
    /\ UNCHANGED <<normVars, apiVars, genVars, batchVars, escVars>>

\* processFile(activeFile) of the command on the active file (main.ts 84,
\* 139): showNotices takes its default, true.
Start(r) == ProcessFileStart(r, TRUE)

\* processFile(file, false) of processDirectory and processAllFiles (lines
\* 1117 and 1182).
StartBatch(r) == ProcessFileStart(r, FALSE)

\* Lines 773-921: vault.read resolves (with or without frontmatter, the two
\* branches are the same code) and generateExcerpt is called on the provider,
\* or rejects into the outer catch of line 1047.
ReadDone(r) ==
    /\ req[r].pc = "read"
    /\ \E ok \in BOOLEAN :
        req' = [req EXCEPT ![r] =
            IF ok
            THEN [@ EXCEPT !.pc = "primaryGen",
                           !.log = Append(@, <<"generateExcerpt", req[r].provider>>)]
            ELSE [@ EXCEPT !.pc = "done", !.outcome = "Failed",
                           !.surfaced = [from |-> "read", class |-> "io"],
                           !.notices = Notify(req[r].showNotices, @, "error", {})]]
    /\ UNCHANGED <<now, settings, providerCooldowns, activeProviders, nextSerial,
                   started, lastFailureAt, rescueUntil>>
    /\ UNCHANGED <<normVars, apiVars, genVars, batchVars, escVars>>

\* Variant of the catch that gives up at once on an authentication error.
HandleProviderErrorFailFast(r, providerError) ==
    LET cooldowns1 == ReportProviderFailure(providerCooldowns, settings.provider, now)
        fallbackResult ==
            CreateFallbackProvider(activeProviders, cooldowns1, now, nextSerial,
                                   settings, settings.provider)
        log1 == req[r].log \o <<<<"reportProviderFailure", settings.provider>>,
                                <<"createFallbackProvider", fallbackResult.provider>>>>
        kept == [provider |-> fallbackResult.provider,
                 fallbackType |-> fallbackResult.fallbackType,
                 needsConfiguration |-> fallbackResult.needsConfiguration]
    IN  /\ providerCooldowns' = cooldowns1
        /\ lastFailureAt' = [lastFailureAt EXCEPT ![settings.provider] = now]
        /\ IF fallbackResult.provider # NoProvider /\ providerError.class # "auth"
           THEN /\ activeProviders' = fallbackResult.pool
                /\ nextSerial' = nextSerial + 1
                /\ req' = [req EXCEPT ![r] =
                       [@ EXCEPT !.pc = "fallbackGen", !.fallbackResult = kept,
                                 !.primaryFailure = providerError,
                                 !.failedAt = now,
                                 !.notices = Notify(req[r].showNotices, @,
                                     "tryingFallback",
                                     {settings.provider, fallbackResult.fallbackType}),
                                 !.log = Append(log1,
                                     <<"generateExcerpt", fallbackResult.provider>>)]]
           ELSE /\ activeProviders' =
                       ReleaseProvider(fallbackResult.pool, req[r].provider)
                /\ nextSerial' = nextSerial
                /\ req' = [req EXCEPT ![r] =
                       [@ EXCEPT !.pc = "done", !.outcome = "Failed",
                                 !.fallbackResult = kept,
                                 !.primaryFailure = Origin(providerError),
                                 !.failedAt = now,
                                 !.surfaced = Origin(providerError),
                                 !.notices = Notify(req[r].showNotices,
                                     IF fallbackResult.needsConfiguration
                                     THEN Notify(req[r].showNotices, @,
                                              "fallbackKeyMissing",
                                              {settings.provider,
                                               fallbackResult.fallbackType})
                                     ELSE @,
                                     "error", {}),
                                 !.log = Append(log1,
                                     <<"releaseProvider", req[r].provider>>)]]

\* Lines 945-1046: catch (providerError).
HandleProviderError(r, providerError) ==
    LET cooldowns1 == ReportProviderFailure(providerCooldowns, settings.provider, now)
        fallbackResult ==
            CreateFallbackProvider(activeProviders, cooldowns1, now, nextSerial,
                                   settings, settings.provider)
        log1 == req[r].log \o <<<<"reportProviderFailure", settings.provider>>,
                                <<"createFallbackProvider", fallbackResult.provider>>>>
        kept == [provider |-> fallbackResult.provider,
                 fallbackType |-> fallbackResult.fallbackType,
                 needsConfiguration |-> fallbackResult.needsConfiguration]
    IN  /\ providerCooldowns' = cooldowns1
        /\ lastFailureAt' = [lastFailureAt EXCEPT ![settings.provider] = now]
        /\ IF fallbackResult.provider # NoProvider
           THEN /\ activeProviders' = fallbackResult.pool
                /\ nextSerial' = nextSerial + 1
                /\ req' = [req EXCEPT ![r] =
                       [@ EXCEPT !.pc = "fallbackGen", !.fallbackResult = kept,
                                 !.primaryFailure = providerError,
                                 !.failedAt = now,
                                 !.notices = Notify(req[r].showNotices, @,
                                     "tryingFallback",
                                     {settings.provider, fallbackResult.fallbackType}),
                                 !.log = Append(log1,
                                     <<"generateExcerpt", fallbackResult.provider>>)]]
           ELSE /\ activeProviders' =
                       ReleaseProvider(fallbackResult.pool, req[r].provider)
                /\ nextSerial' = nextSerial
                /\ req' = [req EXCEPT ![r] =
                       [@ EXCEPT !.pc = "done", !.outcome = "Failed",
                                 !.fallbackResult = kept,
                                 !.primaryFailure = Origin(providerError),
                                 !.failedAt = now,
                                 !.surfaced = Origin(providerError),
                                 !.notices = Notify(req[r].showNotices,
                                     IF fallbackResult.needsConfiguration
                                     THEN Notify(req[r].showNotices, @,
                                              "fallbackKeyMissing",
                                              {settings.provider,
                                               fallbackResult.fallbackType})
                                     ELSE @,
                                     "error", {}),
                                 !.log = Append(log1,
                                     <<"releaseProvider", req[r].provider>>)]]

\* Lines 918-929: generateExcerpt of the provider returns or throws.
PrimaryGenerateDone(r) ==
    /\ req[r].pc = "primaryGen"
    /\ \/ /\ req' = [req EXCEPT ![r] =
                [@ EXCEPT !.pc = "primaryWrite",
                          !.excerptText = [by |-> req[r].provider],
                          !.log = Append(@, <<"returned", req[r].provider>>)]]
          /\ UNCHANGED <<providerCooldowns, activeProviders, nextSerial,
                         lastFailureAt>>
       \/ \E class \in ErrorClasses :
              HandleProviderError(r, [from |-> "primary", class |-> class])
    /\ UNCHANGED <<now, settings, started, rescueUntil>>
    /\ UNCHANGED <<normVars, apiVars, genVars, batchVars, escVars>>

\* Lines 923-944: the write of the excerpt resolves (release, Success) or
\* rejects inside the same try block.
PrimaryWriteDone(r) ==
    /\ req[r].pc = "primaryWrite"
    /\ \/ /\ activeProviders' = ReleaseProvider(activeProviders, req[r].provider)
          /\ req' = [req EXCEPT ![r] =
                [@ EXCEPT !.pc = "done", !.outcome = "Success",
                          !.written = req[r].excerptText,
                          !.notices = Notify(req[r].showNotices, @, "excerpt", {}),
                          !.log = Append(@, <<"releaseProvider", req[r].provider>>)]]
          /\ UNCHANGED <<providerCooldowns, nextSerial, lastFailureAt>>
       \/ HandleProviderError(r, [from |-> "write", class |-> "io"])
    /\ UNCHANGED <<now, settings, started, rescueUntil>>
    /\ UNCHANGED <<normVars, apiVars, genVars, batchVars, escVars>>

\* Variant of the catch that rethrows the error of the primary.
HandleFallbackErrorOriginal(r, fallbackError) ==
    LET fallbackResult == req[r].fallbackResult
        reported == fallbackResult.fallbackType # "null"
    IN  /\ providerCooldowns' =
               IF reported
               THEN ReportProviderFailure(providerCooldowns,
                                          fallbackResult.fallbackType, now)
               ELSE providerCooldowns
        /\ lastFailureAt' =
               IF reported
               THEN [lastFailureAt EXCEPT ![fallbackResult.fallbackType] = now]
               ELSE lastFailureAt
        /\ activeProviders' = ReleaseProvider(activeProviders, fallbackResult.provider)
        /\ req' = [req EXCEPT ![r] =
               [@ EXCEPT !.pc = "done", !.outcome = "Failed",
                         !.primaryFailure = Origin(@),
                         !.surfaced = Origin(req[r].primaryFailure),
                         !.notices = Notify(req[r].showNotices, @, "error", {}),
                         !.log = @ \o
                            (IF reported
                             THEN <<<<"reportProviderFailure",
                                      fallbackResult.fallbackType>>>>
                             ELSE << >>)
                            \o <<<<"releaseProvider", fallbackResult.provider>>>>]]

\* Variant of the catch that does not report the fallback's failure.
HandleFallbackErrorUnreported(r, fallbackError) ==
    LET fallbackResult == req[r].fallbackResult
    IN  /\ providerCooldowns' = providerCooldowns
        /\ lastFailureAt' = lastFailureAt
        /\ activeProviders' = ReleaseProvider(activeProviders, fallbackResult.provider)
        /\ req' = [req EXCEPT ![r] =
               [@ EXCEPT !.pc = "done", !.outcome = "Failed",
                         !.primaryFailure = Origin(@),
                         !.surfaced = Origin(fallbackError),
                         !.notices = Notify(req[r].showNotices, @, "error", {}),
                         !.log = Append(@,
                             <<"releaseProvider", fallbackResult.provider>>)]]

\* Lines 1002-1016: catch (fallbackError), rethrown into the outer catch.
HandleFallbackError(r, fallbackError) ==
    LET fallbackResult == req[r].fallbackResult
        reported == fallbackResult.fallbackType # "null"
    IN  /\ providerCooldowns' =
               IF reported
               THEN ReportProviderFailure(providerCooldowns,
                                          fallbackResult.fallbackType, now)
               ELSE providerCooldowns
        /\ lastFailureAt' =
               IF reported
               THEN [lastFailureAt EXCEPT ![fallbackResult.fallbackType] = now]
               ELSE lastFailureAt
        /\ activeProviders' = ReleaseProvider(activeProviders, fallbackResult.provider)
        /\ req' = [req EXCEPT ![r] =
               [@ EXCEPT !.pc = "done", !.outcome = "Failed",
                         !.primaryFailure = Origin(@),
                         !.surfaced = Origin(fallbackError),
                         !.notices = Notify(req[r].showNotices, @, "error", {}),
                         !.log = @ \o
                            (IF reported
                             THEN <<<<"reportProviderFailure",
                                      fallbackResult.fallbackType>>>>
                             ELSE << >>)
                            \o <<<<"releaseProvider", fallbackResult.provider>>>>]]

\* Lines 971-984: generateExcerpt of the fallback provider returns or throws.
FallbackGenerateDone(r) ==
    /\ req[r].pc = "fallbackGen"
    /\ \/ /\ req' = [req EXCEPT ![r] =
                [@ EXCEPT !.pc = "fallbackWrite",
                          !.excerptText = [by |-> req[r].fallbackResult.provider],
                          !.log = Append(@,
                              <<"returned", req[r].fallbackResult.provider>>)]]
          /\ UNCHANGED <<providerCooldowns, activeProviders, lastFailureAt>>
       \/ \E class \in ErrorClasses :
              HandleFallbackError(r, [from |-> "fallback", class |-> class])
    /\ UNCHANGED <<now, settings, nextSerial, started, rescueUntil>>
    /\ UNCHANGED <<normVars, apiVars, genVars, batchVars, escVars>>

\* Lines 978-1001: the write of the fallback's excerpt resolves (release,
\* Success) or rejects inside the fallback's try block.
FallbackWriteDone(r) ==
    /\ req[r].pc = "fallbackWrite"
    /\ \/ /\ activeProviders' =
                ReleaseProvider(activeProviders, req[r].fallbackResult.provider)
          /\ req' = [req EXCEPT ![r] =
                [@ EXCEPT !.pc = "done", !.outcome = "Success",
                          !.written = req[r].excerptText,
                          !.primaryFailure = Origin(@),
                          !.notices = Notify(req[r].showNotices, @, "excerpt",
                                             {req[r].fallbackResult.fallbackType}),
                          !.log = Append(@,
                              <<"releaseProvider", req[r].fallbackResult.provider>>)]]
          /\ rescueUntil' =
                IF req[r].primaryFailure.from = "primary"
                THEN [rescueUntil EXCEPT ![settings.provider] =
                          Max(@, req[r].failedAt + cooldownDuration)]
                ELSE rescueUntil
          /\ UNCHANGED <<providerCooldowns, lastFailureAt>>
       \/ /\ HandleFallbackError(r, [from |-> "write", class |-> "io"])
          /\ UNCHANGED rescueUntil
    /\ UNCHANGED <<now, settings, nextSerial, started>>
    /\ UNCHANGED <<normVars, apiVars, genVars, batchVars, escVars>>

\* Time passes.
Tick ==
    /\ \E t \in Clock : t > now /\ now' = t
    /\ UNCHANGED <<settings, providerCooldowns, activeProviders, nextSerial, req,
                   started, lastFailureAt, rescueUntil>>
    /\ UNCHANGED <<normVars, apiVars, genVars, batchVars, escVars>>

(***************************************************************************)
(* ClaudeProvider.generateExcerpt on one instance.  A call passes through  *)
(* _enforceRateLimit, awaits client.messages.create, and on a 429 waits    *)
(* and calls itself again.  Time is kept as the distances that the code    *)
(* reads: the ms since lastRequestTime and the ms left on each timer.      *)
(***************************************************************************)
maxRetries == 5

minRequestInterval == 500

\* Math.min(Math.pow(2, retryCount) * 1000 + Math.random() * 1000, 30000)
backoffUnit == 1000

backoffCap == 30000

\* Bounds: generateExcerpt calls made on the instance, the largest
\* retry-after header in seconds, the largest jitter in ms (Math.random()
\* * 1000 is below 1000) and the step of the clock inside the spacing window.
MaxGenerateCalls == 3
HighHint == 31
MaxJitter == 999
StepMs == 250

GenCalls == 1..MaxInFlight

\* The retry-after header of a 429 response: absent, or a number of seconds.
NoHint == -1

Hints == {NoHint, 0, HighHint}

Jitters == {0, MaxJitter}

\* What awaiting client.messages.create gives: a response with a text block,
\* a response without one, an APIError with a status (0: no status, as for a
\* connection error), or another error.
RemoteOutcomes ==
    {[kind |-> "text", status |-> 200], [kind |-> "empty", status |-> 200],
     [kind |-> "error", status |-> 0]}
    \cup {[kind |-> "apiError", status |-> st] :
             st \in {0, 400, 401, 403, 429, 500, 529}}

NoOutcome == [kind |-> "none", status |-> 0]

NoDelay == [hint |-> NoHint, retryCount |-> 0, jitter |-> 0, delayMs |-> 0]

NoTwin == [remoteCalls |-> 0, outcome |-> "none"]

IdleGen ==
    [pc |-> "idle", remaining |-> 0, remoteCalls |-> 0, retries |-> 0,
     last |-> NoOutcome, delay |-> NoDelay, outcome |-> "none", twin |-> NoTwin]

GenIdle ==
    /\ gen = [c \in GenCalls |-> IdleGen]
    /\ retryCount = 0
    /\ sinceLast = minRequestInterval
    /\ lastGap = minRequestInterval
    /\ issued = 0

Pow2(k) == 2 ^ k

\* parseInt(header) * 1000, or null (here -1) without the header.
RetryAfter(hint) == IF hint = NoHint THEN -1 ELSE hint * 1000

\* Variant of the delay that honours a header of 0 seconds.
DelayMsHonourZero(hint, count, jitter) ==
    IF hint # NoHint THEN hint * 1000
    ELSE Min(Pow2(count) * backoffUnit + jitter, backoffCap)

\* Variant of the delay without the cap on the computed backoff.
DelayMsUncapped(hint, count, jitter) ==
    LET retryAfter == RetryAfter(hint)
    IN  IF retryAfter # -1 /\ retryAfter # 0 THEN retryAfter
        ELSE Pow2(count) * backoffUnit + jitter

\* retryAfter || Math.min(...): null and 0 are both falsy.
DelayMs(hint, count, jitter) ==
    LET retryAfter == RetryAfter(hint)
    IN  IF retryAfter # -1 /\ retryAfter # 0 THEN retryAfter
        ELSE Min(Pow2(count) * backoffUnit + jitter, backoffCap)

\* Variant of the classification that treats 529 as any other server error.
ClassifyErrorNoOverload(error) ==
    IF error.kind # "apiError" THEN "unknown"
    ELSE IF error.status = 401 THEN "auth"
    ELSE IF error.status = 400 THEN "malformed"
    ELSE IF error.status >= 500 THEN "server"
    ELSE "unknown"

\* The error thrown for a failure other than 429: the branches for 529, 401,
\* 400 and >= 500, and the wrapping "Claude API error: ..." for the rest.
ClassifyError(error) ==
    IF error.kind # "apiError" THEN "unknown"
    ELSE IF error.status = 529 THEN "overloaded"
    ELSE IF error.status = 401 THEN "auth"
    ELSE IF error.status = 400 THEN "malformed"
    ELSE IF error.status >= 500 THEN "server"
    ELSE "unknown"

\* OpenAIProvider.generateExcerpt (useChatAPI = true, the factory's way of
\* constructing it) on the same outcome of its one remote call: the text, or
\* "OpenAI API error: ..." for everything else.
OpenAIGenerateOutcome(outcome) ==
    IF outcome.kind = "text" THEN "success" ELSE "unknown"

\* Variant of the retry test with one attempt more.
MayRetryOnceMore(count) == count <= maxRetries

\* this.retryCount < this.maxRetries
MayRetry(count) == count < maxRetries

\* Variant of the outbound call that waits for minRequestInterval once more
\* instead of calling messages.create.
SendNowWaitAgain(c, rec) ==
    /\ gen' = [gen EXCEPT ![c] =
                  [rec EXCEPT !.pc = "spacing", !.remaining = minRequestInterval]]
    /\ UNCHANGED <<sinceLast, lastGap>>

\* The outbound call: lastRequestTime = Date.now(), then messages.create.
SendNow(c, rec) ==
    /\ gen' = [gen EXCEPT ![c] =
                  [rec EXCEPT !.pc = "remote", !.remaining = 0,
                              !.remoteCalls = @ + 1]]
    /\ lastGap' = sinceLast
    /\ sinceLast' = 0

\* _enforceRateLimit followed by the outbound call: wait for what is left of
\* minRequestInterval, read at entry, or go on at once.
EnforceRateLimit(c, rec) ==
    IF sinceLast < minRequestInterval
    THEN /\ gen' = [gen EXCEPT ![c] =
                       [rec EXCEPT !.pc = "spacing",
                                   !.remaining = minRequestInterval - sinceLast]]
         /\ UNCHANGED <<sinceLast, lastGap>>
    ELSE SendNow(c, rec)

\* generateExcerpt is called on the instance.
GenStart(c) ==
    /\ gen[c].pc \in {"idle", "done"}
    /\ \A q \in 1..(c - 1) : gen[q].pc \notin {"idle", "done"}
    /\ issued < MaxGenerateCalls
    /\ issued' = issued + 1
    /\ EnforceRateLimit(c, IdleGen)
    /\ UNCHANGED retryCount
    /\ UNCHANGED <<factoryVars, normVars, apiVars, batchVars, escVars>>

\* The timer of _enforceRateLimit fires.
SpacingDone(c) ==
    /\ gen[c].pc = "spacing"
    /\ gen[c].remaining = 0
    /\ SendNow(c, gen[c])
    /\ UNCHANGED <<retryCount, issued>>
    /\ UNCHANGED <<factoryVars, normVars, apiVars, batchVars, escVars>>

\* messages.create resolves or rejects: lines 80-84 and the catch of 85-162.
\* The outcome, the retry-after header and the value of Math.random() are
\* drawn from the sets given.
RemoteDoneOf(c, outcomes, hints, jitters) ==
    /\ gen[c].pc = "remote"
    /\ \E outcome \in outcomes : \E hint \in hints : \E jitter \in jitters :
        LET twin == IF gen[c].twin.outcome = "none"
                    THEN [remoteCalls |-> 1,
                          outcome |-> OpenAIGenerateOutcome(outcome)]
                    ELSE gen[c].twin
            seen == [gen[c] EXCEPT !.last = outcome, !.twin = twin]
            rateLimited == outcome.kind = "apiError" /\ outcome.status = 429
        IN  \* the header and Math.random() are read only on the retry path,
            \* Math.random() only when retryAfter is falsy
            /\ ~(rateLimited /\ MayRetry(retryCount)) =>
                   (hint = NoHint /\ jitter = 0)
            /\ RetryAfter(hint) > 0 => jitter = 0
            /\ IF outcome.kind = "text"
               THEN /\ retryCount' = 0
                    /\ gen' = [gen EXCEPT ![c] =
                           [seen EXCEPT !.pc = "done", !.outcome = "success"]]
               ELSE IF rateLimited /\ MayRetry(retryCount)
               THEN /\ retryCount' = retryCount + 1
                    /\ gen' = [gen EXCEPT ![c] =
                           [seen EXCEPT
                              !.pc = "backoff",
                              !.retries = @ + 1,
                              !.remaining = DelayMs(hint, retryCount + 1, jitter),
                              !.delay = [hint |-> hint,
                                         retryCount |-> retryCount + 1,
                                         jitter |-> jitter,
                                         delayMs |-> DelayMs(hint, retryCount + 1,
                                                             jitter)]]]
               ELSE IF rateLimited
               THEN /\ gen' = [gen EXCEPT ![c] =
                           [seen EXCEPT !.pc = "done", !.outcome = "rate_limit"]]
                    /\ UNCHANGED retryCount
               ELSE /\ gen' = [gen EXCEPT ![c] =
                           [seen EXCEPT !.pc = "done",
                                        !.outcome = ClassifyError(outcome)]]
                    /\ UNCHANGED retryCount
    /\ UNCHANGED <<sinceLast, lastGap, issued>>
    /\ UNCHANGED <<factoryVars, normVars, apiVars, batchVars, escVars>>

RemoteDone(c) == RemoteDoneOf(c, RemoteOutcomes, Hints, Jitters)

\* The outcomes that differ in what they do to the instance's fields: a
\* text, a 429 and a failure that is not retried.
PlainOutcomes ==
    {[kind |-> "text", status |-> 200], [kind |-> "apiError", status |-> 429],
     [kind |-> "error", status |-> 0]}

RemoteDonePlain(c) == RemoteDoneOf(c, PlainOutcomes, {NoHint}, {0})

\* The backoff timer fires: return this.generateExcerpt(content, maxLength).
BackoffDone(c) ==
    /\ gen[c].pc = "backoff"
    /\ gen[c].remaining = 0
    /\ EnforceRateLimit(c, gen[c])
    /\ UNCHANGED <<retryCount, issued>>
    /\ UNCHANGED <<factoryVars, normVars, apiVars, batchVars, escVars>>

Sleepers == {c \in GenCalls : gen[c].pc \in {"spacing", "backoff"}}

\* Time passes on the instance: to the next timer, or by StepMs while the
\* spacing window of the latest outbound call is open.  No timer is late.
Advance ==
    /\ \E d \in {StepMs} \cup {gen[c].remaining : c \in Sleepers} :
        /\ d > 0
        /\ \A c \in Sleepers : gen[c].remaining >= d
        /\ d = StepMs => sinceLast < minRequestInterval
        /\ gen' = [c \in GenCalls |->
                      IF c \in Sleepers
                      THEN [gen[c] EXCEPT !.remaining = @ - d]
                      ELSE gen[c]]
        /\ sinceLast' = Min(minRequestInterval, sinceLast + d)
    /\ UNCHANGED <<retryCount, lastGap, issued>>
    /\ UNCHANGED <<factoryVars, normVars, apiVars, batchVars, escVars>>

(***************************************************************************)
(* FileProcessor.processDirectory and processAllFiles.  One action per     *)
(* stretch of code between two awaits: up to the first processFile call,   *)
(* from the return of a processFile call to the next await, and from the   *)
(* end of the pause to the next await.  processFile is taken by how it     *)
(* ends.                                                                   *)
(***************************************************************************)
\* const batchSize = 5 (lines 1107 and 1165).
batchSize == 5

\* setTimeout(resolve, 2000) (lines 1137 and 1202).
batchDelay == 2000

\* Bound: the documents of one batch.
MaxFiles == 11

BatchKinds == {"directory", "all"}

NoSummary == [processed |-> -1, total |-> -1, errors |-> -1, showsErrors |-> FALSE]

\* i, k: the index of the group's first document and the documents of the
\* group already gone through; order, finished, failed, pauses, pausedAt and
\* waited are history: the documents handed to processFile in the order of
\* the calls, the calls that have returned, the calls that ended in a
\* failure, the pauses taken, the numbers of documents finished when each
\* pause began, and the ms spent in pauses.
IdleBatch ==
    [pc |-> "idle", kind |-> "all", n |-> 0, i |-> 0, k |-> 0,
     processed |-> 0, errors |-> 0, summary |-> NoSummary,
     order |-> << >>, finished |-> 0, failed |-> 0, pauses |-> 0,
     pausedAt |-> {}, waited |-> 0]

BatchIdle == batch = IdleBatch

\* How one processFile(file, false) call ends for the document.
FileOutcomes == {"written", "failed"}

\* Whether the promise of processFile rejects.  A failure inside processFile
\* reaches the catch of lines 1047-1055, which logs it and returns; the
\* extension check and a null provider return at lines 757-769.
ProcessFileRejects(outcome) == FALSE

\* Variant of the pause test that pauses after every group.
PauseDueAfterEveryGroup(i, n) == TRUE

\* i + batchSize < files.length
PauseDue(i, n) == i + batchSize < n

\* files.slice(i, i + batchSize).length
GroupSize(i, n) == Min(batchSize, n - i)

\* The final Notice: `Completed. Processed ${processed}/${files.length}
\* files.` + (errors > 0 ? ` Errors: ${errors}` : "")
Completed(b) ==
    [b EXCEPT !.pc = "done",
              !.summary = [processed |-> b.processed, total |-> b.n,
                           errors |-> b.errors, showsErrors |-> b.errors > 0]]

\* await this.processFile(file, false) on the next document of the group.
CallProcessFile(b) ==
    [b EXCEPT !.pc = "processing", !.order = Append(b.order, b.i + b.k + 1)]

\* The outer for statement at its test i < files.length.
OuterLoop(b) ==
    IF b.i < b.n THEN CallProcessFile(b) ELSE Completed(b)

\* The code after the try statement of one document: the next document of
\* the group, or the end of the group with its pause test.
InnerLoop(b) ==
    IF b.k < GroupSize(b.i, b.n) THEN CallProcessFile(b)
    ELSE IF PauseDue(b.i, b.n)
         THEN [b EXCEPT !.pc = "pausing", !.pauses = b.pauses + 1,
                        !.pausedAt = b.pausedAt \cup {b.finished}]
         ELSE OuterLoop([b EXCEPT !.i = b.i + batchSize, !.k = 0])

\* processDirectory(folder) with n markdown files under the folder (lines
\* 1064-1117) or processAllFiles() with n markdown files in the vault (lines
\* 1161-1182), up to the first await.
BatchStart(kind, n) ==
    /\ batch.pc = "idle"
    /\ batch' = IF kind = "directory" /\ n = 0
                THEN [batch EXCEPT !.pc = "empty", !.kind = kind]
                ELSE OuterLoop([batch EXCEPT !.kind = kind, !.n = n])
    /\ UNCHANGED <<factoryVars, normVars, apiVars, genVars, escVars>>

\* The awaited processFile call settles: processed++ or, in the catch,
\* errors++, then on to the next await (lines 1116-1138 and 1181-1203).
BatchProcessFileReturned(outcome) ==
    /\ batch.pc = "processing"
    /\ LET counted ==
               IF ProcessFileRejects(outcome)
               THEN [batch EXCEPT !.errors = batch.errors + 1]
               ELSE [batch EXCEPT !.processed = batch.processed + 1]
           b == [counted EXCEPT
                     !.k = batch.k + 1,
                     !.finished = batch.finished + 1,
                     !.failed = batch.failed +
                                (IF outcome = "failed" THEN 1 ELSE 0)]
       IN  batch' = InnerLoop(b)
    /\ UNCHANGED <<factoryVars, normVars, apiVars, genVars, escVars>>

\* The timer of the pause fires: i += batchSize and the next group.
BatchPauseDone ==
    /\ batch.pc = "pausing"
    /\ batch' = OuterLoop([batch EXCEPT !.i = batch.i + batchSize, !.k = 0,
                                        !.waited = batch.waited + batchDelay])
    /\ UNCHANGED <<factoryVars, normVars, apiVars, genVars, escVars>>

(***************************************************************************)
(* FileUtils.escapeExcerpt.  A text is a sequence of characters; the       *)
(* characters are the ones the function and the quoted header value treat  *)
(* differently, a space and a letter.                                      *)
(***************************************************************************)
Quote == "\""

Backslash == "\\"

LineFeed == "\n"

CarriageReturn == "\r"

EscChars == {Quote, Backslash, LineFeed, CarriageReturn, " ", "b"}

\* Bound: the length of the excerpt handed to escapeExcerpt.
MaxExcerptLen == 4

\* The characters String.prototype.trim() strips.
IsWhiteSpace(c) == c \in {" ", LineFeed, CarriageReturn}

RECURSIVE TrimWhiteSpaceStart(_)
TrimWhiteSpaceStart(s) ==
    IF s # << >> /\ IsWhiteSpace(Head(s)) THEN TrimWhiteSpaceStart(Tail(s))
    ELSE s

RECURSIVE TrimWhiteSpaceEnd(_)
TrimWhiteSpaceEnd(s) ==
    IF s # << >> /\ IsWhiteSpace(s[Len(s)])
    THEN TrimWhiteSpaceEnd(SubSeq(s, 1, Len(s) - 1))
    ELSE s

\* .replace(/"/g, '\\"'): every double quote becomes backslash, quote.
RECURSIVE ReplaceQuotes(_)
ReplaceQuotes(s) ==
    IF s = << >> THEN << >>
    ELSE (IF Head(s) = Quote THEN <<Backslash, Quote>> ELSE <<Head(s)>>)
         \o ReplaceQuotes(Tail(s))

\* .replace(/\n/g, " "): every line feed becomes a space.
ReplaceNewlines(s) == [i \in 1..Len(s) |-> IF s[i] = LineFeed THEN " " ELSE s[i]]

escapeExcerpt(excerpt) ==
    IF excerpt = << >> THEN << >>
    ELSE TrimWhiteSpaceEnd(TrimWhiteSpaceStart(
             ReplaceNewlines(ReplaceQuotes(excerpt))))

\* `excerpt: "${escapedExcerpt}"`, the header line of
\* createContentWithExcerpt and updateFrontmatterWithExcerpt.
HeaderLine(escaped) ==
    <<"e", "x", "c", "e", "r", "p", "t", ":", " ", Quote>> \o escaped \o <<Quote>>

IdleEsc == [pc |-> "idle", excerpt |-> << >>, escaped |-> << >>, line |-> << >>]

EscIdle == esc = IdleEsc

\* const escapedExcerpt = this.escapeExcerpt(excerpt)
Escape ==
    /\ esc.pc = "ready"
    /\ esc' = [esc EXCEPT !.pc = "escaped",
                          !.escaped = escapeExcerpt(esc.excerpt)]
    /\ UNCHANGED <<factoryVars, normVars, apiVars, genVars, batchVars>>

\* The template literal that puts the escaped text between double quotes.
Embed ==
    /\ esc.pc = "escaped"
    /\ esc' = [esc EXCEPT !.pc = "embedded", !.line = HeaderLine(esc.escaped)]
    /\ UNCHANGED <<factoryVars, normVars, apiVars, genVars, batchVars>>

\* No method of the factory has been called from outside processFile.
NoCall ==
    [op |-> "none", settings |-> DefaultSettings, primaryProvider |-> "null",
     provider |-> NoProvider, result |-> NoResult, at |-> 0,
     cooldowns |-> [p \in LLMProvider |-> 0], pool |-> << >>, serial |-> 0]

\* The arguments and the state a create call of the factory ran in.
CreateCall(op, s) ==
    [NoCall EXCEPT !.op = op, !.settings = s, !.at = now,
                   !.cooldowns = providerCooldowns, !.pool = activeProviders,
                   !.serial = nextSerial]

NormIdle ==
    /\ nText = << >>
    /\ nMaxLength = 1
    /\ nResult = [p \in LLMProvider |-> << >>]
    /\ nPc = "idle"
    /\ nAgain = [p \in LLMProvider |-> << >>]
    /\ nReturned = [p \in LLMProvider |-> << >>]

Init ==
    /\ now = 0
    /\ settings \in Settings
    /\ providerCooldowns = [p \in LLMProvider |-> 0]
    /\ activeProviders = << >>
    /\ nextSerial = 1
    /\ req = [r \in Req |-> IdleReq]
    /\ started = 0
    /\ lastFailureAt = [p \in LLMProvider |-> -1]
    /\ rescueUntil = [p \in LLMProvider |-> 0]
    /\ NormIdle
    /\ call = NoCall
    /\ GenIdle
    /\ BatchIdle
    /\ EscIdle

\* The calls of processFile are issued one after the other, as the batch
\* loops and a user working on one document at a time issue them.
Next ==
    \/ Start(1)
    \/ ReadDone(1)
    \/ PrimaryGenerateDone(1)
    \/ PrimaryWriteDone(1)
    \/ FallbackGenerateDone(1)
    \/ FallbackWriteDone(1)
    \/ Tick

Spec == Init /\ [][Next]_vars

\* Calls of processFile that overlap: each await is a point where another
\* call may run.
NextOverlap ==
    \/ \E r \in Req : Start(r)
    \/ \E r \in Req : ReadDone(r)
    \/ \E r \in Req : PrimaryGenerateDone(r)
    \/ \E r \in Req : PrimaryWriteDone(r)
    \/ \E r \in Req : FallbackGenerateDone(r)
    \/ \E r \in Req : FallbackWriteDone(r)
    \/ Tick

SpecOverlap == Init /\ [][NextOverlap]_vars

\* The calls of a batch: processDirectory and processAllFiles await each
\* processFile(file, false) before the next.
NextBatch ==
    \/ StartBatch(1)
    \/ ReadDone(1)
    \/ PrimaryGenerateDone(1)
    \/ PrimaryWriteDone(1)
    \/ FallbackGenerateDone(1)
    \/ FallbackWriteDone(1)
    \/ Tick

SpecBatch == Init /\ [][NextBatch]_vars

(***************************************************************************)
(* The Normalizer on its own: a limit and a remote text that overshoots it  *)
(* by at most MaxOver characters are drawn, and the providers apply their   *)
(* _ensureCompleteSentence to the trimmed text.                             *)
(***************************************************************************)
\* The texts of length n as sequences.
TextsOfLen(n) == {[i \in 1..n |-> f[i]] : f \in [1..n -> Chars]}

\* The providers trim the remote text before they pass it on
\* (OpenAIProvider line 203, ClaudeProvider line 240).
TrimmedTexts(n) == {t \in TextsOfLen(n) : Trim(t) = t}

\* ClaudeProvider.generateExcerpt of providers/claude-provider.ts, lines 81-84,
\* on the trimmed text of the remote answer (line 222): a text longer than
\* maxLength is cut to maxLength - 3 characters (substring clamps a negative
\* end to 0) and "..." is appended.
ClaudeGenerateExcerptText(text, maxLength) ==
    IF Len(text) > maxLength
    THEN Substring(text, 0, maxLength - 3) \o <<".", ".", ".">>
    ELSE text

\* OpenAIProvider line 206, ClaudeProvider line 242 of the copy that has
\* _ensureCompleteSentence; nReturned is what generateExcerpt of the imported
\* classes hands to processFile.
Enforce ==
    /\ nPc = "ready"
    /\ nResult' = [p \in LLMProvider |->
                      IF p = CLAUDE
                      THEN ClaudeEnsureCompleteSentence(nText, nMaxLength)
                      ELSE OpenAIEnsureCompleteSentence(nText, nMaxLength)]
    /\ nReturned' = [p \in LLMProvider |->
                        IF p = CLAUDE
                        THEN ClaudeGenerateExcerptText(nText, nMaxLength)
                        ELSE OpenAIEnsureCompleteSentence(nText, nMaxLength)]
    /\ nPc' = "done"
    /\ UNCHANGED <<nText, nMaxLength, nAgain>>
    /\ UNCHANGED <<factoryVars, apiVars, genVars, batchVars, escVars>>

\* _ensureCompleteSentence of each provider called on the text it returned,
\* with the same limit.
EnforceAgain ==
    /\ nPc = "done"
    /\ nAgain' = [p \in LLMProvider |->
                     IF p = CLAUDE
                     THEN ClaudeEnsureCompleteSentence(nResult[p], nMaxLength)
                     ELSE OpenAIEnsureCompleteSentence(nResult[p], nMaxLength)]
    /\ nPc' = "again"
    /\ UNCHANGED <<nText, nMaxLength, nResult, nReturned>>
    /\ UNCHANGED <<factoryVars, apiVars, genVars, batchVars, escVars>>

FactoryIdle ==
    /\ now = 0
    /\ settings = DefaultSettings
    /\ providerCooldowns = [p \in LLMProvider |-> 0]
    /\ activeProviders = << >>
    /\ nextSerial = 1
    /\ req = [r \in Req |-> IdleReq]
    /\ started = 0
    /\ lastFailureAt = [p \in LLMProvider |-> -1]
    /\ rescueUntil = [p \in LLMProvider |-> 0]

InitNorm ==
    /\ FactoryIdle
    /\ nMaxLength \in 1..MaxLimit
    /\ \E n \in 0..Min(MaxTextLen, nMaxLength + MaxOver) :
          nText \in TrimmedTexts(n)
    /\ nResult = [p \in LLMProvider |-> << >>]
    /\ nPc = "ready"
    /\ nAgain = [p \in LLMProvider |-> << >>]
    /\ nReturned = [p \in LLMProvider |-> << >>]
    /\ call = NoCall
    /\ GenIdle
    /\ BatchIdle
    /\ EscIdle

NextNorm ==
    \/ Enforce
    \/ EnforceAgain

SpecNorm == InitNorm /\ [][NextNorm]_vars

(***************************************************************************)
(* The Normalizer on longer texts: the text "Hello world. This is fine.    *)
(* This trails off without end" under every limit up to MaxExampleLimit,   *)
(* and texts of DegradedLength characters without a sentence mark and      *)
(* without a space among the first DegradedLimit, under that limit.        *)
(***************************************************************************)
MaxExampleLimit == 60
DegradedLength == 50
DegradedLimit == 10
MaxTailSpaces == 2

HelloText ==
    <<"H", "e", "l", "l", "o", " ", "w", "o", "r", "l", "d", ".", " ",
      "T", "h", "i", "s", " ", "i", "s", " ", "f", "i", "n", "e", ".",
      " ", "T", "h", "i", "s", " ", "t", "r", "a", "i", "l", "s", " ",
      "o", "f", "f", " ", "w", "i", "t", "h", "o", "u", "t", " ", "e",
      "n", "d">>

\* Letters for the first DegradedLimit characters, then lower-case letters
\* after a run of k spaces.
DegradedTexts ==
    {head \o [i \in 1..(DegradedLength - DegradedLimit) |->
                 IF i <= k THEN " " ELSE "b"] :
        head \in [1..DegradedLimit -> {"A", "b"}], k \in 0..MaxTailSpaces}

InitExample ==
    /\ FactoryIdle
    /\ \/ nText = HelloText /\ nMaxLength \in 1..MaxExampleLimit
       \/ nText \in DegradedTexts /\ nMaxLength = DegradedLimit
    /\ nResult = [p \in LLMProvider |-> << >>]
    /\ nPc = "ready"
    /\ nAgain = [p \in LLMProvider |-> << >>]
    /\ nReturned = [p \in LLMProvider |-> << >>]
    /\ call = NoCall
    /\ GenIdle
    /\ BatchIdle
    /\ EscIdle

SpecExample == InitExample /\ [][NextNorm]_vars

(***************************************************************************)
(* The Normalizer on texts without a sentence mark: words and spaces only, *)
(* under every limit up to MaxWordsLimit, so that the last two steps of    *)
(* the chain decide.                                                       *)
(***************************************************************************)
MaxWordsLimit == 12

WordChars == {"b", " "}

WordTexts(n) ==
    {t \in {[i \in 1..n |-> f[i]] : f \in [1..n -> WordChars]} : Trim(t) = t}

InitWords ==
    /\ FactoryIdle
    /\ nMaxLength \in 1..MaxWordsLimit
    /\ \E n \in (nMaxLength + 1)..(nMaxLength + MaxOver) :
          nText \in WordTexts(n)
    /\ nResult = [p \in LLMProvider |-> << >>]
    /\ nPc = "ready"
    /\ nAgain = [p \in LLMProvider |-> << >>]
    /\ nReturned = [p \in LLMProvider |-> << >>]
    /\ call = NoCall
    /\ GenIdle
    /\ BatchIdle
    /\ EscIdle

SpecWords == InitWords /\ [][NextNorm]_vars

(***************************************************************************)
(* ProviderFactory on its own: its public static methods called in any     *)
(* order by any caller, each with the settings object of that call.  At     *)
(* most MaxInstances provider objects are constructed.                      *)
(***************************************************************************)
\* createProvider(settings), while at most maxInstances objects are constructed.
CallCreateProviderWithin(maxInstances) ==
    /\ \E s \in Settings :
        LET created == CreateProvider(activeProviders, providerCooldowns, now,
                                      nextSerial, s)
        IN  /\ created.provider.serial = nextSerial => nextSerial <= maxInstances
            /\ activeProviders' = created.pool
            /\ nextSerial' = IF created.provider.serial = nextSerial
                             THEN nextSerial + 1 ELSE nextSerial
            /\ call' = [CreateCall("createProvider", s) EXCEPT
                            !.provider = created.provider]
    /\ UNCHANGED <<now, settings, providerCooldowns, req, started,
                   lastFailureAt, rescueUntil>>
    /\ UNCHANGED <<normVars, genVars, batchVars, escVars>>

CallCreateProvider == CallCreateProviderWithin(MaxInstances)

\* createFallbackProvider(settings, settings.provider), as every call site
\* passes its arguments (provider-factory.ts 65-68, settings.ts 950-953).
CallCreateFallbackProvider ==
    /\ \E s \in Settings : \E primaryProvider \in {s.provider} :
        LET result == CreateFallbackProvider(activeProviders, providerCooldowns,
                                             now, nextSerial, s, primaryProvider)
        IN  /\ result.provider.serial = nextSerial => nextSerial <= MaxInstances
            /\ activeProviders' = result.pool
            /\ nextSerial' = IF result.provider.serial = nextSerial
                             THEN nextSerial + 1 ELSE nextSerial
            /\ call' = [CreateCall("createFallbackProvider", s) EXCEPT
                            !.primaryProvider = primaryProvider,
                            !.result = [provider |-> result.provider,
                                        fallbackType |-> result.fallbackType,
                                        needsConfiguration |->
                                            result.needsConfiguration]]
    /\ UNCHANGED <<now, settings, providerCooldowns, req, started,
                   lastFailureAt, rescueUntil>>
    /\ UNCHANGED <<normVars, genVars, batchVars, escVars>>

\* reportProviderFailure(provider)
CallReportProviderFailure ==
    /\ \E provider \in LLMProvider :
        /\ providerCooldowns' = ReportProviderFailure(providerCooldowns, provider, now)
        /\ lastFailureAt' = [lastFailureAt EXCEPT ![provider] = now]
        /\ call' = [NoCall EXCEPT !.op = "reportProviderFailure",
                                  !.primaryProvider = provider]
    /\ UNCHANGED <<now, settings, activeProviders, nextSerial, req, started,
                   rescueUntil>>
    /\ UNCHANGED <<normVars, genVars, batchVars, escVars>>

\* releaseProvider(provider), for an instance the caller holds.
CallReleaseProvider ==
    /\ \E provider \in PoolProviders(activeProviders) :
        /\ activeProviders' = ReleaseProvider(activeProviders, provider)
        /\ call' = [NoCall EXCEPT !.op = "releaseProvider",
                                  !.provider = provider]
    /\ UNCHANGED <<now, settings, providerCooldowns, nextSerial, req, started,
                   lastFailureAt, rescueUntil>>
    /\ UNCHANGED <<normVars, genVars, batchVars, escVars>>

InitFactory ==
    /\ FactoryIdle
    /\ NormIdle
    /\ call = NoCall
    /\ GenIdle
    /\ BatchIdle
    /\ EscIdle

NextFactory ==
    \/ CallCreateProvider
    \/ CallCreateFallbackProvider
    \/ CallReportProviderFailure
    \/ CallReleaseProvider
    \/ Tick

SpecFactory == InitFactory /\ [][NextFactory]_vars

\* The factory driven on its own with one object more than the pool may
\* hold.
NextFactoryCrowded ==
    \/ CallCreateProviderWithin(maxActiveProviders + 1)
    \/ CallReportProviderFailure
    \/ CallReleaseProvider
    \/ Tick

SpecFactoryCrowded == InitFactory /\ [][NextFactoryCrowded]_vars

(***************************************************************************)
(* One ClaudeProvider instance on its own: its generateExcerpt calls one   *)
(* after the other, as one processFile at a time makes them, or            *)
(* overlapping, as calls that were handed the same pooled instance do.      *)
(***************************************************************************)
InitClaude ==
    /\ FactoryIdle
    /\ NormIdle
    /\ call = NoCall
    /\ GenIdle
    /\ BatchIdle
    /\ EscIdle

NextClaude ==
    \/ GenStart(1)
    \/ SpacingDone(1)
    \/ RemoteDone(1)
    \/ BackoffDone(1)
    \/ Advance

SpecClaude == InitClaude /\ [][NextClaude]_vars

NextClaudeOverlap ==
    \/ \E c \in GenCalls : GenStart(c)
    \/ \E c \in GenCalls : SpacingDone(c)
    \/ \E c \in GenCalls : RemoteDonePlain(c)
    \/ \E c \in GenCalls : BackoffDone(c)
    \/ Advance

SpecClaudeOverlap == InitClaude /\ [][NextClaudeOverlap]_vars

(***************************************************************************)
(* One processFile call together with the generateExcerpt call it makes on *)
(* a ClaudeProvider: the first request of a session, whose instances are   *)
(* new.  The generateExcerpt call of the request on a ClaudeProvider is    *)
(* the call of the instance machine, with the answers that differ in what  *)
(* the call does next; on an OpenAIProvider it is one remote call, which   *)
(* returns or throws.                                                      *)
(***************************************************************************)
\* The provider on which the request is awaiting generateExcerpt.
AwaitedProvider(r) ==
    IF req[r].pc = "primaryGen" THEN req[r].provider
    ELSE IF req[r].pc = "fallbackGen" THEN req[r].fallbackResult.provider
    ELSE NoProvider

\* generateExcerpt of a ClaudeProvider has settled when the call on the
\* instance is done; it resolves exactly when that call returned a text.
Settled(r, resolved) ==
    AwaitedProvider(r).type = CLAUDE =>
        /\ gen[1].pc = "done"
        /\ resolved <=> gen[1].outcome = "success"

RequestStart ==
    /\ started = 0
    /\ Start(1)

\* The request's generateExcerpt call enters the ClaudeProvider.
RequestGenStart ==
    /\ AwaitedProvider(1).type = CLAUDE
    /\ gen[1].pc = "idle"
    /\ GenStart(1)

RequestPrimaryGenerateDone ==
    /\ PrimaryGenerateDone(1)
    /\ Settled(1, req'[1].pc = "primaryWrite")

RequestFallbackGenerateDone ==
    /\ FallbackGenerateDone(1)
    /\ Settled(1, req'[1].pc = "fallbackWrite")

\* The instance is new and every backoff is longer than minRequestInterval,
\* so _enforceRateLimit never has to wait here and its timer has no step.
NextRequest ==
    \/ RequestStart
    \/ ReadDone(1)
    \/ RequestGenStart
    \/ RemoteDonePlain(1)
    \/ BackoffDone(1)
    \/ Advance
    \/ RequestPrimaryGenerateDone
    \/ PrimaryWriteDone(1)
    \/ RequestFallbackGenerateDone
    \/ FallbackWriteDone(1)
    \/ Tick

\* Every awaited promise settles (the host's read and write, the remote
\* calls), every timer fires, and the code between two awaits runs.
RequestFairness ==
    /\ WF_vars(ReadDone(1))
    /\ WF_vars(RequestGenStart)
    /\ WF_vars(RemoteDonePlain(1))
    /\ WF_vars(BackoffDone(1))
    /\ WF_vars(Advance)
    /\ WF_vars(RequestPrimaryGenerateDone)
    /\ WF_vars(PrimaryWriteDone(1))
    /\ WF_vars(RequestFallbackGenerateDone)
    /\ WF_vars(FallbackWriteDone(1))

SpecRequest == Init /\ [][NextRequest]_vars /\ RequestFairness

(***************************************************************************)
(* The batch loops on their own: a batch over 0..MaxFiles documents, each  *)
(* processFile call ending either way.                                     *)
(***************************************************************************)
InitBatchLoop ==
    /\ FactoryIdle
    /\ NormIdle
    /\ call = NoCall
    /\ GenIdle
    /\ BatchIdle
    /\ EscIdle

NextBatchLoop ==
    \/ \E kind \in BatchKinds, n \in 0..MaxFiles : BatchStart(kind, n)
    \/ \E outcome \in FileOutcomes : BatchProcessFileReturned(outcome)
    \/ BatchPauseDone

SpecBatchLoop == InitBatchLoop /\ [][NextBatchLoop]_vars

(***************************************************************************)
(* escapeExcerpt on its own: every excerpt of at most MaxExcerptLen        *)
(* characters is escaped and put into the header line.                     *)
(***************************************************************************)
Excerpts ==
    UNION {{[i \in 1..n |-> f[i]] : f \in [1..n -> EscChars]} : n \in 0..MaxExcerptLen}

InitEscape ==
    /\ FactoryIdle
    /\ NormIdle
    /\ call = NoCall
    /\ GenIdle
    /\ BatchIdle
    /\ esc \in {[IdleEsc EXCEPT !.pc = "ready", !.excerpt = e] : e \in Excerpts}

NextEscape ==
    \/ Escape
    \/ Embed

SpecEscape == InitEscape /\ [][NextEscape]_vars

(***************************************************************************)
(* Claims.                                                                 *)
(***************************************************************************)

\* C1: whatever the text and the positive limit, the text returned by
\* _ensureCompleteSentence, in either provider, is at most maxLength long.
C1_LengthInvariant ==
    nPc = "done" => \A p \in LLMProvider : Len(nResult[p]) <= nMaxLength

\* A text longer than the limit with no mark and no usable space: the hard
\* truncation filled the limit exactly.
C1_Witness ==
    /\ nPc = "done"
    /\ Len(nText) > nMaxLength
    /\ \A i \in 1..Len(nText) : ~IsPunct(nText[i]) /\ ~IsSpace(nText[i])
    /\ \A p \in LLMProvider :
          nResult[p] = Substring(nText, 0, nMaxLength - 1) \o <<".">>

(***************************************************************************)
(* Reading the log of a processFile call.                                  *)
(***************************************************************************)
LogOps(log, op) == {i \in 1..Len(log) : log[i][1] = op}

\* The provider objects the call obtained from the factory.
Acquired(log) ==
    {log[i][2] : i \in LogOps(log, "createProvider")
                       \cup LogOps(log, "createFallbackProvider")} \ {NoProvider}

\* The provider objects generateExcerpt was called on, and returned from.
Called(log) == {log[i][2] : i \in LogOps(log, "generateExcerpt")}

Returned(log) == {log[i][2] : i \in LogOps(log, "returned")}

Finished(r) == req[r].pc = "done" /\ req[r].outcome \in {"Success", "Failed"}

\* generateExcerpt of the provider obtained from createProvider threw.
PrimaryGenerateFailed(r) == req[r].primaryFailure.from = "primary"

\* generateExcerpt of the provider obtained from createProvider returned.
PrimaryGenerateReturned(r) == req[r].provider \in Returned(req[r].log)

\* generateExcerpt of the fallback provider was called and has returned.
FallbackGenerateReturned(r) ==
    /\ req[r].fallbackResult.provider # NoProvider
    /\ req[r].fallbackResult.provider \in Returned(req[r].log)

\* generateExcerpt of the fallback provider was called and threw.
FallbackGenerateFailed(r) ==
    /\ req[r].fallbackResult.provider # NoProvider
    /\ req[r].fallbackResult.provider \in Called(req[r].log)
    /\ req[r].fallbackResult.provider \notin Returned(req[r].log)
    /\ req[r].pc = "done"

\* C2: createProvider never hands out a provider whose identity is in
\* cooldown at the time of the call, whatever the state of the other identity.
C2_NeverInCooldown ==
    [][\A r \in Req :
          (req[r].pc \in {"idle", "done"} /\ req'[r].pc = "read")
              => ~IsProviderInCooldown(providerCooldowns,
                                       req'[r].provider.type, now)]_vars

\* C3: the pool never holds more than maxActiveProviders instances.
C3_PoolWithinCap == Len(activeProviders) <= maxActiveProviders

\* C4: when a call that acquired a provider has ended in Success or Failed,
\* every provider object it acquired has been released from the pool.
C4_AllReleased ==
    \A r \in Req :
        Finished(r) => Acquired(req[r].log) \cap PoolProviders(activeProviders) = {}

\* C5: whatever the class of the error thrown by the primary generateExcerpt,
\* the call reports the failure of the configured identity, then calls
\* createFallbackProvider exactly once, calls generateExcerpt exactly once on
\* the provider it returns, if any, and acquires or calls nothing further.
C5_OneFallbackHop ==
    \A r \in Req :
        PrimaryGenerateFailed(r) =>
            LET log == req[r].log
                k == CHOOSE i \in LogOps(log, "generateExcerpt") :
                        \A j \in LogOps(log, "generateExcerpt") : i <= j
                fallback == req[r].fallbackResult.provider
            IN  /\ req[r].primaryFailure.class \in ErrorClasses \cup {"none"}
                /\ Len(log) >= k + 2
                /\ log[k] = <<"generateExcerpt", req[r].provider>>
                /\ log[k + 1] = <<"reportProviderFailure", settings.provider>>
                /\ log[k + 2] = <<"createFallbackProvider", fallback>>
                /\ Cardinality(LogOps(log, "createFallbackProvider")) = 1
                /\ Cardinality(LogOps(log, "createProvider")) = 1
                /\ IF fallback # NoProvider
                   THEN /\ log[k + 3] = <<"generateExcerpt", fallback>>
                        /\ Cardinality(LogOps(log, "generateExcerpt")) = 2
                   ELSE /\ Cardinality(LogOps(log, "generateExcerpt")) = 1
                        /\ req[r].pc = "done"

\* An authentication error of the primary was followed by the one fallback
\* call, which has returned.
C5_Witness ==
    \E r \in Req :
        /\ req[r].primaryFailure = [from |-> "primary", class |-> "auth"]
        /\ req[r].pc = "fallbackWrite"
        /\ Cardinality(LogOps(req[r].log, "generateExcerpt")) = 2

\* C6 as stated: when both generateExcerpt calls fail, the error surfaced is
\* the error of the primary.
C6_PrimaryErrorSurfaced ==
    \A r \in Req :
        (PrimaryGenerateFailed(r) /\ FallbackGenerateFailed(r)) =>
            /\ req[r].outcome = "Failed"
            /\ req[r].surfaced.from = "primary"

\* C6 amended: when both generateExcerpt calls fail, the call ends in Failed
\* and the error surfaced is the error of the fallback.
C6_FallbackErrorSurfaced ==
    \A r \in Req :
        (PrimaryGenerateFailed(r) /\ FallbackGenerateFailed(r)) =>
            /\ req[r].outcome = "Failed"
            /\ req[r].surfaced.from = "fallback"

C6_Witness ==
    \E r \in Req :
        /\ PrimaryGenerateFailed(r)
        /\ FallbackGenerateFailed(r)
        /\ req[r].surfaced.from = "fallback"

\* C7: after a call whose primary generateExcerpt failed and whose fallback
\* generateExcerpt returned, the excerpt written is the fallback's, the
\* primary identity is in cooldown for the window that follows, and no call
\* started within that window calls generateExcerpt on the primary identity.
C7_FallbackScenario ==
    /\ \A r \in Req :
          (PrimaryGenerateFailed(r) /\ FallbackGenerateReturned(r)
                /\ req[r].outcome = "Success") =>
              /\ req[r].written = [by |-> req[r].fallbackResult.provider]
              /\ now < req[r].failedAt + cooldownDuration =>
                     IsProviderInCooldown(providerCooldowns, settings.provider, now)
    /\ \A r \in Req : \A x \in Called(req[r].log) : x.type \notin req[r].window

\* C8: once the primary generateExcerpt has returned, the call reports no
\* failure, asks for no fallback, calls generateExcerpt on nothing else,
\* leaves the primary identity out of cooldown and ends in Success.
C8_PrimarySuccessIsFinal ==
    \A r \in Req :
        PrimaryGenerateReturned(r) =>
            /\ LogOps(req[r].log, "reportProviderFailure") = {}
            /\ LogOps(req[r].log, "createFallbackProvider") = {}
            /\ Cardinality(LogOps(req[r].log, "generateExcerpt")) = 1
            /\ req[r].pc = "done" => req[r].outcome = "Success"

\* C9: createFallbackProvider names the other identity as the fallback:
\* OpenAI for Claude and Claude for OpenAI, never the primary itself.
C9_FallbackRouting ==
    \A r \in Req :
        LogOps(req[r].log, "createFallbackProvider") # {} =>
            /\ req[r].fallbackResult.fallbackType \in LLMProvider
            /\ req[r].fallbackResult.fallbackType # settings.provider
            /\ settings.provider = CLAUDE =>
                   req[r].fallbackResult.fallbackType = OPENAI
            /\ settings.provider = OPENAI =>
                   req[r].fallbackResult.fallbackType = CLAUDE
            /\ req[r].fallbackResult.provider # NoProvider =>
                   req[r].fallbackResult.provider.type
                       = req[r].fallbackResult.fallbackType

\* The fallback of OpenAI was asked for and a Claude instance was returned
\* and pooled next to the primary.
C9_Witness ==
    \E r \in Req :
        /\ settings.provider = OPENAI
        /\ req[r].pc = "fallbackGen"
        /\ req[r].fallbackResult.fallbackType = CLAUDE
        /\ req[r].fallbackResult.provider.type = CLAUDE
        /\ Len(activeProviders) >= 2

\* C10: an identity whose failure was last reported at time t is in cooldown
\* exactly while now < t + cooldownDuration; an identity never reported is
\* not in cooldown.  The entry is not removed, and nothing but the clock
\* ends the cooldown.
C10_CooldownWindow ==
    \A p \in LLMProvider :
        IF lastFailureAt[p] < 0
        THEN ~IsProviderInCooldown(providerCooldowns, p, now)
        ELSE /\ providerCooldowns[p] = lastFailureAt[p] + cooldownDuration
             /\ IsProviderInCooldown(providerCooldowns, p, now)
                    <=> now < lastFailureAt[p] + cooldownDuration

\* The cooldown of an identity ended at the first reading of the clock that
\* reaches t + cooldownDuration, after a generateExcerpt on that identity
\* returned during the cooldown, and the entry is still in the table.
C10_Witness ==
    \E p \in LLMProvider :
        /\ lastFailureAt[p] >= 0
        /\ now = lastFailureAt[p] + cooldownDuration
        /\ providerCooldowns[p] = now
        /\ ~IsProviderInCooldown(providerCooldowns, p, now)
        /\ \E r \in Req : \E x \in Returned(req[r].log) : x.type = p

\* C13: a call whose createFallbackProvider reported needsConfiguration ends
\* in Failed with an error of its own that names the primary and the
\* fallback provider, not with the error of the primary's generateExcerpt,
\* whether showNotices is true or false.
C13_NotConfiguredError ==
    \A r \in Req :
        (Finished(r) /\ req[r].fallbackResult.needsConfiguration) =>
            /\ req[r].outcome = "Failed"
            /\ req[r].surfaced.from \notin {"primary", "write"}
            /\ \E i \in 1..Len(req[r].notices) :
                  /\ req[r].notices[i].kind = "fallbackKeyMissing"
                  /\ req[r].notices[i].names =
                        {settings.provider, req[r].fallbackResult.fallbackType}

\* C14: a call whose createProvider returned null ends in Failed at once:
\* processFile makes no generateExcerpt, reportProviderFailure or
\* createFallbackProvider call, and the pool and the cooldown table are as
\* they were before the call.
C14_AbsentPrimary ==
    [][\A r \in Req :
          (/\ req[r].pc \in {"idle", "done"}
           /\ req'[r] # req[r]
           /\ req'[r].outcome # "Skipped"
           /\ req'[r].provider = NoProvider) =>
              /\ req'[r].pc = "done"
              /\ req'[r].outcome = "Failed"
              /\ req'[r].surfaced = ConfigError
              /\ req'[r].log = <<<<"createProvider", NoProvider>>>>
              /\ activeProviders' = activeProviders
              /\ providerCooldowns' = providerCooldowns
              /\ lastFailureAt' = lastFailureAt
              /\ nextSerial' = nextSerial]_vars

\* A call found the key of the configured provider missing and ended in
\* Failed, after an earlier call of the behaviour had ended the same way.
C14_Witness ==
    /\ started >= 2
    /\ ~HasKey(settings, settings.provider)
    /\ \E r \in Req :
          /\ req[r].pc = "done"
          /\ req[r].outcome = "Failed"
          /\ req[r].surfaced = ConfigError
          /\ req[r].provider = NoProvider

\* C20: the text returned by _ensureCompleteSentence, in either provider,
\* ends with '.', '!' or '?', whether or not the text was longer than
\* maxLength.
C20_EndsAtSentenceBoundary ==
    nPc = "done" =>
        \A p \in LLMProvider :
            /\ nResult[p] # << >>
            /\ IsPunct(nResult[p][Len(nResult[p])])

(***************************************************************************)
(* Claims on the factory's methods, for calls from any caller.             *)
(***************************************************************************)
\* The identity createFallbackProvider falls back to (lines 183-184, 217-218).
FallbackOf(primaryProvider) == IF primaryProvider = CLAUDE THEN OPENAI ELSE CLAUDE

\* Whether the settings object of the last call holds the key of an identity.
CallHasKey(type) ==
    IF type = CLAUDE THEN call.settings.claudeApiKey ELSE call.settings.openaiApiKey

\* C11: a createFallbackProvider call made while the fallback identity is in
\* cooldown returns no provider, needsConfiguration = false and the fallback
\* identity as fallbackType; it constructs no instance and leaves the pool
\* as it was.
C11_FallbackInCooldown ==
    (/\ call.op = "createFallbackProvider"
     /\ IsProviderInCooldown(call.cooldowns, FallbackOf(call.primaryProvider),
                             call.at)) =>
        /\ call.result.provider = NoProvider
        /\ call.result.needsConfiguration = FALSE
        /\ call.result.fallbackType = FallbackOf(call.primaryProvider)
        /\ nextSerial = call.serial
        /\ activeProviders = call.pool

\* createFallbackProvider was called with the fallback's key set, the
\* fallback identity in cooldown and an instance in the pool.
C11_Witness ==
    /\ call.op = "createFallbackProvider"
    /\ IsProviderInCooldown(call.cooldowns, FallbackOf(call.primaryProvider), call.at)
    /\ CallHasKey(FallbackOf(call.primaryProvider))
    /\ call.pool # << >>
    /\ call.result.provider = NoProvider

\* C12: a createFallbackProvider call whose settings lack the key of the
\* fallback identity returns no provider and needsConfiguration = true,
\* whatever the cooldown table holds.
C12_MissingKeyAlwaysFlagged ==
    (/\ call.op = "createFallbackProvider"
     /\ ~CallHasKey(FallbackOf(call.primaryProvider))) =>
        /\ call.result.provider = NoProvider
        /\ call.result.needsConfiguration = TRUE

\* C12, amended: a createFallbackProvider call whose settings lack the key
\* of the fallback identity, made while that identity is not in cooldown,
\* returns no provider and needsConfiguration = true; made while it is in
\* cooldown it returns no provider and needsConfiguration = false.
C12_MissingKeyFlaggedOutsideCooldown ==
    (/\ call.op = "createFallbackProvider"
     /\ ~CallHasKey(FallbackOf(call.primaryProvider))) =>
        /\ call.result.provider = NoProvider
        /\ call.result.needsConfiguration =
              ~(call.cooldowns[FallbackOf(call.primaryProvider)] # 0
                /\ call.at < call.cooldowns[FallbackOf(call.primaryProvider)])
        /\ nextSerial = call.serial
        /\ activeProviders = call.pool

\* createFallbackProvider was called without the fallback's key after the
\* cooldown of the fallback identity had run out, and set the flag.
C12_Witness ==
    /\ call.op = "createFallbackProvider"
    /\ ~CallHasKey(FallbackOf(call.primaryProvider))
    /\ call.cooldowns[FallbackOf(call.primaryProvider)] # 0
    /\ call.at >= call.cooldowns[FallbackOf(call.primaryProvider)]
    /\ call.result.needsConfiguration = TRUE

(***************************************************************************)
(* Claims on the providers' generateExcerpt.                               *)
(***************************************************************************)

RateLimited(outcome) == outcome.kind = "apiError" /\ outcome.status = 429

\* C15, first half: a generateExcerpt call on a ClaudeProvider used by one
\* call at a time makes at most maxRetries retries and maxRetries + 1 calls
\* of messages.create, and when it ends on a 429 it ends with the rate-limit
\* error.
C15_RetryBudget ==
    \A c \in GenCalls :
        /\ gen[c].retries <= maxRetries
        /\ gen[c].remoteCalls <= maxRetries + 1
        /\ (gen[c].pc = "done" /\ RateLimited(gen[c].last)) =>
               gen[c].outcome = "rate_limit"

C15_RetryBudgetWitness ==
    \E c \in GenCalls :
        /\ gen[c].pc = "done"
        /\ gen[c].outcome = "rate_limit"
        /\ gen[c].retries = maxRetries
        /\ gen[c].remoteCalls = maxRetries + 1

\* C15, second half: after generateExcerpt of the call's provider has failed
\* with the rate-limit error, processFile calls generateExcerpt on no
\* provider of the same type again in that call.
C15_RateLimitNotRetriedUpTheStack ==
    \A r \in Req :
        (req[r].pc = "fallbackGen"
         /\ req[r].primaryFailure = [from |-> "primary", class |-> "rate_limit"])
        => req[r].fallbackResult.provider.type # req[r].provider.type

\* C16: whenever a 429 response that is retried carries a retry-after header
\* of n seconds, n >= 0, the delay waited before the next attempt is
\* n * 1000 ms and not the computed backoff.
C16_HintIsTheDelay ==
    \A c \in GenCalls :
        gen[c].delay.hint # NoHint =>
            gen[c].delay.delayMs = gen[c].delay.hint * 1000

\* A retry-after header of 0 seconds was received and the computed backoff
\* was waited.
C16_ZeroHintBackoff ==
    \E c \in GenCalls :
        /\ gen[c].pc = "backoff"
        /\ gen[c].delay.hint = 0
        /\ gen[c].delay.delayMs =
               Min(Pow2(gen[c].delay.retryCount) * backoffUnit
                   + gen[c].delay.jitter, backoffCap)
        /\ gen[c].remaining = gen[c].delay.delayMs

\* The class the claim gives to a failure that is not a 429.
C17_ClassOf(outcome) ==
    IF outcome.kind = "apiError" /\ outcome.status = 401 THEN "auth"
    ELSE IF outcome.kind = "apiError" /\ outcome.status = 400 THEN "malformed"
    ELSE IF outcome.kind = "apiError" /\ outcome.status = 529 THEN "overloaded"
    ELSE IF outcome.kind = "apiError" /\ outcome.status >= 500 THEN "server"
    ELSE "unknown"

\* C17: a failure of messages.create with status 401, 400, 529 or another
\* status >= 500 ends generateExcerpt at once with the error of that class,
\* whatever retryCount is: no retry is counted, no delay is started and no
\* further remote call is made; every other failure that is not a 429 ends
\* it at once with the wrapped "Claude API error".
C17_FailsAtOnceWithClass ==
    [][\A c \in GenCalls :
          (gen[c].pc = "remote" /\ gen'[c].last # gen[c].last
           /\ gen'[c].last.kind # "text" /\ ~RateLimited(gen'[c].last))
          => /\ gen'[c].pc = "done"
             /\ gen'[c].outcome = C17_ClassOf(gen'[c].last)
             /\ gen'[c].remaining = 0
             /\ gen'[c].remoteCalls = gen[c].remoteCalls
             /\ gen'[c].retries = gen[c].retries
             /\ retryCount' = retryCount]_vars

\* The same as a property of the states: a call whose latest remote outcome
\* is such a failure has ended with the class of that failure.
C17_EndedWithClass ==
    \A c \in GenCalls :
        (gen[c].last.kind \notin {"none", "text"} /\ ~RateLimited(gen[c].last))
        => /\ gen[c].pc = "done"
           /\ gen[c].outcome = C17_ClassOf(gen[c].last)

\* A call that was rate-limited and retried ends on a 529 with the
\* overloaded error, the retry counter being above 0.
C17_Witness ==
    \E c \in GenCalls :
        /\ gen[c].pc = "done"
        /\ gen[c].last = [kind |-> "apiError", status |-> 529]
        /\ gen[c].outcome = "overloaded"
        /\ gen[c].retries > 0
        /\ retryCount > 0
        /\ gen[c].remoteCalls = gen[c].retries + 1

\* C18: on a provider instance, in every interleaving of the generateExcerpt
\* calls made on it, an outbound remote call starts at least
\* minRequestInterval ms after the one before it.
C18_SpacedOutboundCalls == lastGap >= minRequestInterval

\* Two calls entered _enforceRateLimit inside the window of the same earlier
\* outbound call, their timers fired together and the second of them was sent
\* 0 ms after the first.
C18_SentTogether ==
    /\ lastGap = 0
    /\ sinceLast = 0
    /\ \E c, d \in GenCalls :
          /\ c # d
          /\ gen[c].pc = "remote"
          /\ gen[d].pc = "remote"

\* C19: run on the same sequence of remote outcomes, OpenAIProvider's
\* generateExcerpt makes as many remote calls as ClaudeProvider's and ends in
\* the same class of outcome: it retries a 429 up to the cap and classifies
\* failures in the same way.
C19_SameContract ==
    \A c \in GenCalls :
        gen[c].pc = "done" =>
            /\ gen[c].twin.remoteCalls = gen[c].remoteCalls
            /\ gen[c].twin.outcome = gen[c].outcome

\* On outcomes 429, then a text, ClaudeProvider made two remote calls and
\* returned the text while OpenAIProvider made one and threw its wrapped
\* error.
C19_OpenAIGaveUp ==
    \E c \in GenCalls :
        /\ gen[c].pc = "done"
        /\ gen[c].outcome = "success"
        /\ gen[c].remoteCalls = 2
        /\ gen[c].twin = [remoteCalls |-> 1, outcome |-> "unknown"]

(***************************************************************************)
(* Further claims on _ensureCompleteSentence.                              *)
(***************************************************************************)
\* C21: _ensureCompleteSentence is idempotent: called with the same limit on
\* the text it returned, either provider's copy returns that text.
C21_Idempotent ==
    nPc = "again" => \A p \in LLMProvider : nAgain[p] = nResult[p]

\* A text longer than the limit was shortened, and the second call returned
\* the shortened text.
C21_Witness ==
    /\ nPc = "again"
    /\ Len(nText) > nMaxLength
    /\ \A p \in LLMProvider :
          /\ nResult[p] # nText
          /\ nResult[p] # << >>
          /\ nAgain[p] = nResult[p]

\* C22: for the text "Hello world. This is fine. This trails off without
\* end" and maxLength = 27, _ensureCompleteSentence returns "Hello world.".
C22_HelloWorldOnly ==
    (nPc = "done" /\ nText = HelloText /\ nMaxLength = 27) =>
        \A p \in LLMProvider : nResult[p] = Substring(HelloText, 0, 12)

\* C22, as the code has it: with maxLength = 27 the boundary after "This is
\* fine." ends at position 27 and the text returned is "Hello world. This is
\* fine."; "Hello world." is returned for the limits 12 to 26.
C22_LastBoundaryWithinLimit ==
    (nPc = "done" /\ nText = HelloText) =>
        \A p \in LLMProvider :
            /\ nMaxLength = 27 => nResult[p] = Substring(HelloText, 0, 26)
            /\ nMaxLength \in 12..26 => nResult[p] = Substring(HelloText, 0, 12)

C22_Witness ==
    /\ nPc = "done"
    /\ nText = HelloText
    /\ nMaxLength = 27
    /\ \A p \in LLMProvider :
          /\ Len(nResult[p]) = 26
          /\ nResult[p][26] = "."
          /\ nResult[p][14] = "T"

\* The text has DegradedLength characters, none of them a sentence mark, and
\* no space among the first DegradedLimit.
Degraded(text) ==
    /\ Len(text) = DegradedLength
    /\ \A i \in 1..Len(text) : ~IsPunct(text[i])
    /\ \A i \in 1..DegradedLimit : ~IsSpace(text[i])

C24_ReusesAtCapacity ==
    (/\ call.op = "createProvider"
     /\ Len(call.pool) = maxActiveProviders
     /\ ~IsProviderInCooldown(call.cooldowns, call.settings.provider, call.at))
    => /\ call.provider \in PoolProviders(call.pool)
       /\ call.provider.type = call.settings.provider
       /\ nextSerial = call.serial
       /\ activeProviders = call.pool

\* With two providers of the other type in the pool, createProvider
\* constructed a third object and pooled it.
C24_ThirdConstructed ==
    /\ call.op = "createProvider"
    /\ Len(call.pool) = maxActiveProviders
    /\ \A i \in 1..Len(call.pool) :
          call.pool[i].provider.type # call.settings.provider
    /\ call.provider.serial = call.serial
    /\ call.provider.type = call.settings.provider
    /\ Len(activeProviders) = maxActiveProviders + 1

(***************************************************************************)
(* Claims on the batch loops.                                              *)
(***************************************************************************)
\* C25: a batch over n documents of which f fail attempts all n documents
\* and its final summary reports errors = f and processed = n - f.
C25_SummaryCountsFailures ==
    batch.pc = "done" =>
        /\ Len(batch.order) = batch.n
        /\ batch.summary.errors = batch.failed
        /\ batch.summary.processed = batch.n - batch.failed
        /\ batch.summary.processed + batch.summary.errors = batch.n

\* A batch has ended in which every document was attempted and one failed.
C25_FailureInBatch ==
    /\ batch.pc = "done"
    /\ Len(batch.order) = batch.n
    /\ batch.failed = 1

\* ceil(n / batchSize)
Groups(n) == (n + batchSize - 1) \div batchSize

\* C26: the documents of a batch are handed to processFile one at a time in
\* listing order, each after the one before it has finished; a pause of
\* 2000 ms is taken after a group of 5 exactly when documents remain, so a
\* batch of n >= 1 documents has ceil(n/5) - 1 pauses and none after the
\* last group.
C26_OneAtATimeWithPauses ==
    /\ batch.order = [j \in 1..Len(batch.order) |-> j]
    /\ Len(batch.order) <= batch.finished + 1
    /\ Len(batch.order) <= batch.n
    /\ batch.pc = "pausing" => Len(batch.order) = batch.finished
    /\ batch.pausedAt \subseteq
           {m \in 1..(batch.n - 1) : m % 5 = 0}
    /\ batch.pc = "done" /\ batch.n >= 1 =>
           /\ batch.finished = batch.n
           /\ batch.pauses = Groups(batch.n) - 1
           /\ batch.pausedAt = {m \in 1..(batch.n - 1) : m % 5 = 0}
           /\ batch.waited = 2000 * batch.pauses

\* A batch of three groups has ended after two pauses.
C26_Witness ==
    /\ batch.pc = "done"
    /\ batch.n = 11
    /\ batch.pauses = 2
    /\ batch.pausedAt = {5, 10}

(***************************************************************************)
(* Claims on escapeExcerpt.                                                *)
(***************************************************************************)
\* The number of backslashes that stand immediately before position i.
RECURSIVE BackslashesBefore(_, _)
BackslashesBefore(s, i) ==
    IF i > 1 /\ s[i - 1] = Backslash THEN 1 + BackslashesBefore(s, i - 1) ELSE 0

\* C27: for every excerpt, escapeExcerpt returns a value without a line feed
\* in which every double quote is escaped by a backslash that is not itself
\* escaped, that is, is preceded by an odd number of backslashes.
C27_SafeBetweenQuotes ==
    esc.pc \in {"escaped", "embedded"} =>
        /\ \A i \in 1..Len(esc.escaped) : esc.escaped[i] # LineFeed
        /\ \A i \in 1..Len(esc.escaped) :
               esc.escaped[i] = Quote =>
                   BackslashesBefore(esc.escaped, i) % 2 = 1

\* The excerpt backslash, quote has been escaped to backslash, backslash,
\* quote and put between the quotes of the header line.
C27_QuoteAfterBackslash ==
    /\ esc.pc = "embedded"
    /\ esc.excerpt = <<Backslash, Quote>>
    /\ esc.escaped = <<Backslash, Backslash, Quote>>

(***************************************************************************)
(* Claims on the steps of _ensureCompleteSentence.                         *)
(***************************************************************************)
\* The ends (number of characters kept) of the sentence boundaries of a
\* text: a mark, the whitespace after it, and then a capital or the end of
\* the text.
BoundaryEnds(text) ==
    {e \in 1..Len(text) :
        \E i \in 1..e :
            /\ IsPunct(text[i])
            /\ \A k \in (i + 1)..e : IsSpace(text[k])
            /\ e = Len(text) \/ IsUpper(text[e + 1])}

SetMax(S) == CHOOSE x \in S : \A y \in S : y <= x

\* C28: when the text is longer than maxLength and a sentence boundary ends
\* at a position <= maxLength, both copies return the text cut at the last
\* such boundary, trailing whitespace trimmed, whatever the later steps
\* would give.
C28_CutAtLastBoundary ==
    nPc \in {"done", "again"} /\ Len(nText) > nMaxLength =>
        LET within == {e \in BoundaryEnds(nText) : e <= nMaxLength}
        IN  within # {} =>
                \A p \in LLMProvider :
                    nResult[p] = TrimEnd(SubSeq(nText, 1, SetMax(within)))

\* A text with a boundary within the limit and a later mark, still within
\* the limit, that is no boundary: the cut is at the boundary.
C28_Witness ==
    /\ nPc = "done"
    /\ nText = <<"b", ".", " ", "A", ".", "b">>
    /\ nMaxLength = 5
    /\ \A p \in LLMProvider : nResult[p] = <<"b", ".">>

\* The 0-based indices up to maxLength - 1 at which the text has a mark.
MarksWithin(text, maxLength) ==
    {i \in 0..(Min(maxLength, Len(text)) - 1) : IsPunct(text[i + 1])}

\* C29: when the text is longer than maxLength, no sentence boundary ends at
\* or before maxLength and a mark occurs at an index i with 0 <= i <=
\* maxLength - 1, both copies return the text cut immediately after the
\* latest such mark.
C29_CutAfterLatestMark ==
    nPc \in {"done", "again"} /\ Len(nText) > nMaxLength =>
        LET within == {e \in BoundaryEnds(nText) : e <= nMaxLength}
            marks == MarksWithin(nText, nMaxLength)
        IN  within = {} /\ marks # {} =>
                \A p \in LLMProvider :
                    nResult[p] = SubSeq(nText, 1, SetMax(marks) + 1)

\* The only mark within the limit is the first character of the text; the
\* result is the hard truncation, with a period added.
C29_MarkAtIndexZero ==
    /\ nPc = "done"
    /\ nText = <<".", "b", "b", "b", "b", "b">>
    /\ nMaxLength = 5
    /\ \A p \in LLMProvider : nResult[p] = <<".", "b", "b", "b", ".">>

\* The 0-based indices up to maxLength - 1 at which the text has whitespace.
SpacesWithin(text, maxLength) ==
    {i \in 0..(Min(maxLength, Len(text)) - 1) : IsSpace(text[i + 1])}

\* C30: when the text is longer than maxLength and has no mark at or before
\* index maxLength - 1, the result is the prefix before the last whitespace
\* at an index s <= maxLength - 1, trimmed, with a period, exactly when
\* s >= 0.75 * maxLength, and the hard truncation otherwise.
C30_SpaceFallbackFromThreeQuarters ==
    nPc \in {"done", "again"} /\ Len(nText) > nMaxLength
        /\ MarksWithin(nText, nMaxLength) = {} =>
        LET spaces == SpacesWithin(nText, nMaxLength)
            taken == spaces # {} /\ 4 * SetMax(spaces) >= 3 * nMaxLength
        IN  \A p \in LLMProvider :
                nResult[p] =
                    IF taken
                    THEN Trim(SubSeq(nText, 1, SetMax(spaces))) \o <<".">>
                    ELSE Trim(SubSeq(nText, 1, nMaxLength - 1)) \o <<".">>

\* The last space within the limit of 12 is at index 9, exactly three
\* quarters of the limit, and the result is the hard truncation.
C30_ExactlyThreeQuarters ==
    /\ nPc = "done"
    /\ nMaxLength = 12
    /\ nText = <<"b", "b", "b", "b", "b", "b", "b", "b", "b", " ", "b", "b", "b">>
    /\ \A p \in LLMProvider :
           nResult[p] = <<"b", "b", "b", "b", "b", "b", "b", "b", "b", " ", "b", ".">>

(***************************************************************************)
(* Further claims on processFile.                                          *)
(***************************************************************************)
\* The step in which the generateExcerpt call of the fallback of request r
\* fails, after the generateExcerpt call of its primary has failed.
BothGenerationsFail(r) ==
    /\ req[r].pc = "fallbackGen"
    /\ req[r].primaryFailure.from = "primary"
    /\ req'[r].pc = "done"
    /\ req'[r].surfaced.from = "fallback"

NextLogged(r) == req'[r].log[Len(req[r].log) + 1]

\* C32: whenever a generate call fails, reportProviderFailure is called with
\* the identity of the instance the call ran on, also when createProvider
\* handed out an instance of the other identity because the configured one
\* was in cooldown.
C32_ReportsFailedInstance ==
    [][\A r \in Req :
          /\ (req[r].pc = "primaryGen" /\ req'[r].primaryFailure.from = "primary")
                 => NextLogged(r) = <<"reportProviderFailure", req[r].provider.type>>
          /\ (req[r].pc = "fallbackGen" /\ req'[r].surfaced.from = "fallback")
                 => NextLogged(r) = <<"reportProviderFailure",
                                      req[r].fallbackResult.provider.type>>]_vars

\* The generate call on an instance handed out in place of the configured
\* identity has failed, and the cooldown of the instance's own identity has
\* not been touched.
C32_RedirectedFailure ==
    \E r \in Req :
        /\ req[r].primaryFailure.from = "primary"
        /\ req[r].provider.type # settings.provider
        /\ lastFailureAt[settings.provider] = now
        /\ lastFailureAt[req[r].provider.type] = -1

\* The instances on which request r has called generateExcerpt, in order.
GeneratedOn(r) ==
    SelectSeq(req[r].log, LAMBDA e : e[1] = "generateExcerpt")

\* C33: within one request generateExcerpt is called on at most one instance
\* of each identity: the fallback hop goes to the identity other than the
\* one of the instance whose generate call has just failed.
C33_FallbackIsOtherIdentity ==
    \A r \in Req :
        LET calls == GeneratedOn(r)
        IN  \A i, j \in 1..Len(calls) :
                i # j => calls[i][2].type # calls[j][2].type

\* A request called generateExcerpt on two different instances of the same
\* identity.
C33_SameIdentityTwice ==
    \E r \in Req :
        LET calls == GeneratedOn(r)
        IN  /\ Len(calls) = 2
            /\ calls[1][2].type = calls[2][2].type
            /\ calls[1][2].serial # calls[2][2].serial

(***************************************************************************)
(* Further claims on the providers' generateExcerpt.                       *)
(***************************************************************************)
\* C34: the retry counter of the instance is 0 whenever a generateExcerpt
\* call begins on it, also after an earlier call on it has failed.
C34_FullBudgetAtStart ==
    [][\A c \in GenCalls :
          gen[c].pc \in {"idle", "done"} /\ gen'[c].pc \notin {"idle", "done"}
              => retryCount = 0]_vars

\* A call that has not retried yet is waiting for its first remote call on
\* an instance whose counter an earlier, failed call has left at maxRetries.
C34_NoBudgetLeft ==
    \E c \in GenCalls :
        /\ gen[c].pc = "remote"
        /\ gen[c].retries = 0
        /\ gen[c].remoteCalls = 1
        /\ retryCount = maxRetries

\* C35: when two generateExcerpt calls run at the same time on one
\* ClaudeProvider instance, each of them makes at most maxRetries rate-limit
\* retries before it fails, in every interleaving of their remote outcomes.
C35_BudgetPerCall ==
    \A c \in GenCalls :
        gen[c].pc # "idle" => gen[c].retries \in 0..maxRetries

\* One of two calls in flight on the instance has retried more than
\* maxRetries times.
C35_RetriedBeyondBudget ==
    \E c, d \in GenCalls :
        /\ c # d
        /\ gen[c].retries = maxRetries + 1
        /\ gen[d].pc # "idle"

(***************************************************************************)
(* Further claims on the pool.                                             *)
(***************************************************************************)
\* The provider objects held by a pool.
Pooled(pool) == {pool[i].provider : i \in 1..Len(pool)}

\* C36: each construction of a provider by createProvider or
\* createFallbackProvider adds exactly one entry to the pool and leaves the
\* entries of the other instances in it, at every clock reading.
C36_ConstructionAddsOneEntry ==
    [][nextSerial' # nextSerial =>
          /\ Len(activeProviders') = Len(activeProviders) + 1
          /\ Pooled(activeProviders) \subseteq Pooled(activeProviders')]_vars

\* Two providers of one type were constructed in the same millisecond and
\* the pool holds the second under the key of the first, which was never
\* released.
C36_EntryOverwritten ==
    /\ call.op = "createProvider"
    /\ call.provider.serial = call.serial
    /\ Len(call.pool) = 1
    /\ call.pool[1].provider.type = call.provider.type
    /\ call.pool[1].id = ProviderId(call.provider.type, call.at)
    /\ activeProviders = <<[id |-> call.pool[1].id, provider |-> call.provider]>>

(***************************************************************************)
(* Claims on the delay before a retry.                                     *)
(***************************************************************************)
\* C37 as stated: every delay waited before a rate-limit retry is at most
\* 30000 ms, whether it is computed or taken from a retry-after header.
C37_EveryDelayCapped ==
    \A c \in GenCalls : gen[c].delay.delayMs <= 30000

\* C37, amended: the delay computed for a retry, 2^retryCount * 1000 ms plus
\* a jitter below 1000 ms, is cut to 30000 ms; the delay taken from a
\* retry-after header of n >= 1 seconds is n * 1000 ms whatever its size.
C37_ComputedDelayCapped ==
    \A c \in GenCalls :
        LET d == gen[c].delay
        IN  d.retryCount > 0 =>
                IF d.hint \in {NoHint, 0}
                THEN /\ d.delayMs = Min(2 ^ d.retryCount * 1000 + d.jitter, 30000)
                     /\ d.delayMs <= 30000
                ELSE d.delayMs = d.hint * 1000

\* The backoff computed for the fifth retry in a row, 32000 ms and more, was
\* cut to 30000 ms.
C37_Witness ==
    \E c \in GenCalls :
        /\ gen[c].pc = "backoff"
        /\ gen[c].delay.hint = NoHint
        /\ gen[c].delay.retryCount = maxRetries
        /\ gen[c].delay.delayMs = backoffCap

(***************************************************************************)
(* Termination of a request.                                               *)
(***************************************************************************)
\* C38: a request that has started eventually ends as Success or Failed,
\* when every remote call returns and every timer fires: the retries of
\* generateExcerpt and the one fallback hop come to an end.
C38_RequestTerminates ==
    (req[1].pc \notin {"idle", "done"})
        ~> (req[1].pc = "done" /\ req[1].outcome \in {"Success", "Failed"})

\* The request failed after generateExcerpt on Claude had used up its
\* retries and the fallback had failed as well.
C38_Witness ==
    /\ req[1].pc = "done"
    /\ req[1].outcome = "Failed"
    /\ req[1].surfaced.from = "fallback"
    /\ gen[1].pc = "done"
    /\ gen[1].outcome = "rate_limit"
    /\ gen[1].retries = maxRetries

(***************************************************************************)
(* Claims on the text generateExcerpt returns.                             *)
(***************************************************************************)

\* C39: for every raw text and maxLength, the text ClaudeProvider.generateExcerpt
\* returns equals the text OpenAIProvider.generateExcerpt returns for the same
\* raw text, and both are the result of _ensureCompleteSentence, never a cut
\* that ends in an appended "...".
C39_SamePostProcessing ==
    nPc = "done" =>
        /\ nReturned[CLAUDE] = nReturned[OPENAI]
        /\ \A p \in LLMProvider : nReturned[p] = nResult[p]

\* The imported ClaudeProvider has cut the text and appended an ellipsis.
C39_EllipsisCut ==
    /\ nPc = "done"
    /\ Len(nText) > nMaxLength
    /\ nMaxLength >= 3
    /\ nReturned[CLAUDE] = SubSeq(nText, 1, nMaxLength - 3) \o <<".", ".", ".">>
    /\ nReturned[CLAUDE] # nReturned[OPENAI]

====
